---------------------------- MODULE Spec2Model ----------------------------
(***************************************************************************)
(* A model of scripts/version_status.py: the version reconciliation of     *)
(* installed PostgreSQL extensions against upstream releases; and of       *)
(* scripts/lib/update_env_var.py, which sets a KEY=value line of an env    *)
(* file; of scripts/lib/compare_float.py, which compares two numbers       *)
(* given on the command line; of scripts/perf_diff.py, which reports the   *)
(* differences between two pg_stat_statements snapshots; and of            *)
(* scripts/generate_report.py, which renders the maintenance report.       *)
(*                                                                         *)
(* Representation.  A Python str that the code inspects character by       *)
(* character (a tag, a version) is a sequence of one-character strings,    *)
(* <<"v","1",".","2">> for "v1.2".  An Optional[str] of that sort is such  *)
(* a sequence or None, the one-element sequence holding a token that is no *)
(* character.  A str that the code only compares and uses as a key (a      *)
(* component name, a repository, a source tag, a pattern) is a TLA+ string,*)
(* and NoName stands for Python's None there.                              *)
(***************************************************************************)
EXTENDS Integers, Sequences, FiniteSets, TLC

VARIABLES
    n_tag,       \* normalize_version: argument tag
    n_pattern,   \* normalize_version: argument pattern
    n_out,       \* normalize_version: the value returned
    n_pc,        \* normalize_version: "idle", "call" before, "done" after
    n_again,     \* normalize_version: what it returns for n_out
    c_installed, \* compare_versions: argument installed
    c_latest,    \* compare_versions: argument latest
    c_out,       \* compare_versions: the value returned
    c_pc,        \* compare_versions: "idle", "call" before, "done" after
    f_repo,      \* fetch_github_latest: argument repo
    f_response,  \* fetch_github_latest: what the release API answers
    f_out,       \* fetch_github_latest: the value returned or exception raised
    f_pc,        \* fetch_github_latest: "idle", "call" before, "done" after
    CONFIG,      \* the catalog: ComponentConfig records in dict order
    server_version, \* main: what SHOW server_version gave
    installed_exts, \* main: its dict installed, extname -> extversion
    upstream,    \* repo -> what the release API answers during this run
    cache,       \* main: the dict handed to resolve_latest
    rows,        \* main: the rows appended so far
    idx,         \* main: position in CONFIG.items() of the next iteration
    pc,          \* main: "idle", "loop", "done", "crashed"
    exc,         \* main: the exception that ended the run, "" when none
    fetched,     \* the repos fetch_github_latest was called with, in order
    invocation,  \* "first" or "second" run of main
    prev_rows,   \* the rows of the first run, once the second has begun
    prev_upstream, \* upstream as it was during the first run
    only_outdated, \* main: args.only_outdated
    quiet,       \* main: args.quiet
    output,      \* main: whether args.output names a file
    display_rows, \* main: the rows left for display
    written,     \* main: the rows written to the file args.output
    printed,     \* main: what went to stdout: "", "up_to_date" or "table"
    u_file,      \* update_env_var: the file before the call, NoFile if none
    u_key,       \* update_env_var: argument key
    u_value,     \* update_env_var: argument value
    u_out,       \* update_env_var: the file after the call, NoFile if none
    u_pc,        \* update_env_var: "idle", "call" before, "done" after
    u_exc,       \* update_env_var: the exception raised, "" when none
    u_argv,      \* update_env_var.py: argv handed to main, <<>> when the
                 \* function is called without main
    u_ret,       \* update_env_var.py: what main returned, NoReturn before
    u_io,        \* update_env_var.py: the calls made on the path, in order
    u_again,     \* update_env_var: the file after a second call
    cf_argv,     \* compare_float: argv handed to main
    cf_out,      \* compare_float: how main ended, returned or exited
    cf_pc,       \* compare_float: "idle", "call" before, "done" after
    p_base,      \* perf_diff: the CSV file --base names
    p_compare,   \* perf_diff: the CSV file --compare names
    p_limit,     \* perf_diff: args.limit
    p_deltas,    \* perf_diff: the list deltas once it is sorted
    p_out,       \* perf_diff: the data rows written to stdout
    p_pc,        \* perf_diff: "idle", "call" before, "done" after
    p_exc,       \* perf_diff: the exception that ended main, "" when none
    g_dir,       \* generate_report: the files of --input, by name
    g_rows,      \* generate_report: --rows
    g_idx,       \* generate_report: position of main's loop in SECTION_FILES
    g_sections,  \* generate_report: the sections rendered so far
    g_out,       \* generate_report: the sections of the report written
    g_pc         \* generate_report: "idle", "loop", "done"

normVars == <<n_tag, n_pattern, n_out, n_pc, n_again>>
cmpVars == <<c_installed, c_latest, c_out, c_pc>>
fetchVars == <<f_repo, f_response, f_out, f_pc>>
inputVars == <<CONFIG, server_version, installed_exts>>
argVars == <<only_outdated, quiet, output>>
outVars == <<display_rows, written, printed>>
runVars == <<inputVars, upstream, cache, rows, idx, pc, exc, fetched,
             invocation, prev_rows, prev_upstream, argVars, outVars>>

envVars == <<u_file, u_key, u_value, u_out, u_pc, u_exc, u_argv, u_ret, u_io, u_again>>

floatVars == <<cf_argv, cf_out, cf_pc>>
diffVars == <<p_base, p_compare, p_limit, p_deltas, p_out, p_pc, p_exc>>
reportVars == <<g_dir, g_rows, g_idx, g_sections, g_out, g_pc>>

vars == <<normVars, cmpVars, fetchVars, runVars, envVars, floatVars, diffVars, reportVars>>

IdleNorm == n_tag = <<>> /\ n_pattern = "" /\ n_out = <<>> /\ n_pc = "idle" /\ n_again = <<>>
IdleCmp == c_installed = <<>> /\ c_latest = <<>> /\ c_out = "" /\ c_pc = "idle"
IdleFetch == f_repo = "" /\ f_response = <<>> /\ f_out = <<>> /\ f_pc = "idle"
IdleEnv ==
    /\ u_file = <<>>
    /\ u_key = <<>>
    /\ u_value = <<>>
    /\ u_out = <<>>
    /\ u_pc = "idle"
    /\ u_exc = ""
    /\ u_argv = <<>>
    /\ u_ret = -1
    /\ u_io = <<>>
    /\ u_again = <<>>
IdleFloat == cf_argv = <<>> /\ cf_out = <<>> /\ cf_pc = "idle"
IdleDiff ==
    /\ p_base = <<>>
    /\ p_compare = <<>>
    /\ p_limit = 0
    /\ p_deltas = <<>>
    /\ p_out = <<>>
    /\ p_pc = "idle"
    /\ p_exc = ""
IdleReport ==
    /\ g_dir = <<>>
    /\ g_rows = 0
    /\ g_idx = 0
    /\ g_sections = <<>>
    /\ g_out = <<>>
    /\ g_pc = "idle"
IdleRun ==
    /\ CONFIG = <<>>
    /\ server_version = <<>>
    /\ installed_exts = <<>>
    /\ upstream = <<>>
    /\ cache = <<>>
    /\ rows = <<>>
    /\ idx = 0
    /\ pc = "idle"
    /\ exc = ""
    /\ fetched = <<>>
    /\ invocation = "first"
    /\ prev_rows = <<>>
    /\ prev_upstream = <<>>
    /\ only_outdated = FALSE
    /\ quiet = FALSE
    /\ output = FALSE
    /\ display_rows = <<>>
    /\ written = <<>>
    /\ printed = ""

---------------------------------------------------------------------------
(* Bounds of the model.                                                    *)

\* longest free part of a tag handed to normalize_version
MaxBody == 3

\* most dotted components of a version handed to compare_versions
MaxParts == 3

\* longest chain of aliases, counted in alias components
MaxChain == 3

---------------------------------------------------------------------------
(* Python values.                                                          *)

None == <<"None">>
NoName == "<None>"

\* Python truthiness of an Optional[str]: None and "" are falsy.
Falsy(s) == s = None \/ s = <<>>

\* Python truthiness of an Optional[str] held as a TLA+ string.
FalsyName(x) == x = NoName \/ x = ""

Digits == {"0", "1", "2", "3", "4", "5", "6", "7", "8", "9"}

\* the characters str.strip() removes, among those the model's strings hold
Whitespace == {" ", "\t"}

\* str.upper() on the letters the model's strings hold
Upper(c) ==
    CASE c = "r" -> "R"
      [] c = "e" -> "E"
      [] c = "l" -> "L"
      [] c = "v" -> "V"
      [] OTHER -> c

\* str.lower() on the letters the model's strings hold
Lower(c) ==
    CASE c = "R" -> "r"
      [] c = "E" -> "e"
      [] c = "V" -> "v"
      [] c = "L" -> "l"
      [] OTHER -> c

\* s[from:] in Python terms, with from counted from 1
Drop(s, from) == IF from > Len(s) THEN <<>> ELSE SubSeq(s, from, Len(s))

\* str.lstrip(chars): every leading character that is in chars goes
RECURSIVE lstrip(_, _)
lstrip(s, chars) ==
    IF s # <<>> /\ Head(s) \in chars THEN lstrip(Tail(s), chars) ELSE s

\* str.rstrip(chars)
RECURSIVE rstrip(_, _)
rstrip(s, chars) ==
    IF s # <<>> /\ s[Len(s)] \in chars
    THEN rstrip(SubSeq(s, 1, Len(s) - 1), chars)
    ELSE s

\* str.strip(): surrounding whitespace goes
strip(s) == rstrip(lstrip(s, Whitespace), Whitespace)

\* sub_marker without flags=re.IGNORECASE: only the upper-case marker goes
sub_marker_case_sensitive(marker, s) ==
    IF Len(s) >= 4 /\ <<s[1], s[2], s[3]>> = marker /\ s[4] \in {"_", "-"}
    THEN Drop(s, 5)
    ELSE s

\* re.sub(r"^(XYZ[_-])", "", s, flags=re.IGNORECASE) for a three-letter
\* marker XYZ given in upper case: the pattern is anchored, so at most the
\* one occurrence at the start is removed.
sub_marker(marker, s) ==
    IF /\ Len(s) >= 4
       /\ <<Upper(s[1]), Upper(s[2]), Upper(s[3])>> = marker
       /\ s[4] \in {"_", "-"}
    THEN Drop(s, 5)
    ELSE s

\* str.replace("_", ".")
replace_underscore(s) == [k \in 1..Len(s) |-> IF s[k] = "_" THEN "." ELSE s[k]]

---------------------------------------------------------------------------
(* The patterns of CONFIG.  The only pattern of the catalog is pg_repack's;*)
(* the same pattern without the (?i) flag is the one of the specification's *)
(* example.  re.search is modelled for these two patterns.                 *)

PatRepack == "(?i)(?:ver[_-])?([0-9_.]+)"
PatPlain == "(?:ver[_-])?([0-9_.]+)"

\* the character class [0-9_.]
PatClass == Digits \cup {"_", "."}

\* (?:ver[_-]) matches at position p of s (case-insensitively under (?i))
PatPrefixAt(pattern, s, p) ==
    /\ p + 3 <= Len(s)
    /\ LET w == <<s[p], s[p + 1], s[p + 2]>>
           f == IF pattern = PatRepack
                THEN <<Lower(w[1]), Lower(w[2]), Lower(w[3])>>
                ELSE w
       IN  f = <<"v", "e", "r">>
    /\ s[p + 3] \in {"_", "-"}

\* where group 1 starts when the pattern matches at position p, 0 when it
\* does not match there: the optional prefix is tried first (greedy) and
\* given up when no class character follows it.
PatGroupStartAt(pattern, s, p) ==
    IF PatPrefixAt(pattern, s, p) /\ p + 4 <= Len(s) /\ s[p + 4] \in PatClass
    THEN p + 4
    ELSE IF s[p] \in PatClass THEN p ELSE 0

\* the end of the longest run of class characters that starts at position p
RECURSIVE PatRunEnd(_, _)
PatRunEnd(s, p) ==
    IF p + 1 <= Len(s) /\ s[p + 1] \in PatClass THEN PatRunEnd(s, p + 1) ELSE p

\* re.search(pattern, tag): the leftmost match; [matched, group1]
RECURSIVE re_search_from(_, _, _)
re_search_from(pattern, s, p) ==
    IF p > Len(s)
    THEN [matched |-> FALSE, group |-> <<>>]
    ELSE LET g == PatGroupStartAt(pattern, s, p)
         IN  IF g = 0
             THEN re_search_from(pattern, s, p + 1)
             ELSE [matched |-> TRUE, group |-> SubSeq(s, g, PatRunEnd(s, g))]

re_search(pattern, s) == re_search_from(pattern, s, 1)

---------------------------------------------------------------------------
(* normalize_version                                                       *)

\* normalize_tail with tag[1:] for a leading v in place of tag.lstrip("vV")
normalize_tail_single_v(tag0) ==
    LET t1 == strip(tag0)
        t2 == sub_marker(<<"R", "E", "L">>, t1)
        t3 == sub_marker(<<"V", "E", "R">>, t2)
        t4 == IF t3 # <<>> /\ Head(t3) \in {"v", "V"} THEN Tail(t3) ELSE t3
        t5 == replace_underscore(t4)
        t6 == strip(t5)
    IN  IF t6 = <<>> THEN None ELSE t6

\* lines 133-139: what follows the pattern handling
normalize_tail(tag0) ==
    LET t1 == strip(tag0)
        t2 == sub_marker(<<"R", "E", "L">>, t1)
        t3 == sub_marker(<<"V", "E", "R">>, t2)
        t4 == lstrip(t3, {"v", "V"})
        t5 == replace_underscore(t4)
        t6 == strip(t5)
    IN  IF t6 = <<>> THEN None ELSE t6

\* normalize_version that keeps the whole tag when the pattern does not match
normalize_version_keep_unmatched(tag, pattern) ==
    IF Falsy(tag)
    THEN None
    ELSE IF ~FalsyName(pattern)
         THEN LET m == re_search(pattern, tag)
              IN  normalize_tail(IF m.matched THEN m.group ELSE tag)
         ELSE normalize_tail(tag)

normalize_version(tag, pattern) ==
    IF Falsy(tag)
    THEN None
    ELSE IF ~FalsyName(pattern)
         THEN LET m == re_search(pattern, tag)
              IN  IF m.matched THEN normalize_tail(m.group) ELSE None
         ELSE normalize_tail(tag)

---------------------------------------------------------------------------
(* The calls of normalize_version that are checked: SpecNorm draws a tag   *)
(* and a pattern and applies the function once.                            *)

\* the characters of the free part of a tag
BodyChars == {"v", "V", "_", " ", "1", "."}

\* what a tag may begin with: nothing, the markers in several letter cases,
\* near misses of a marker, and the prefix pg_repack's pattern knows
TagHeads ==
    { <<>>,
      <<"R", "E", "L", "_">>, <<"r", "e", "l", "-">>, <<"R", "e", "L", "_">>,
      <<"V", "E", "R", "_">>, <<"v", "e", "r", "-">>, <<"v", "e", "r", "_">>,
      <<"R", "E", "L">>, <<"E", "L", "_">> }

RECURSIVE SeqsUpTo(_, _)
SeqsUpTo(chars, n) ==
    IF n = 0
    THEN {<<>>}
    ELSE LET shorter == SeqsUpTo(chars, n - 1)
         IN  shorter \cup {<<c>> \o s : c \in chars, s \in {t \in shorter : Len(t) = n - 1}}

Tag_REL_3_4_1 == <<"R", "E", "L", "_", "3", "_", "4", "_", "1">>
Tag_v2_0_0 == <<"v", "2", ".", "0", ".", "0">>
Tag_ver_1_2 == <<"v", "e", "r", "-", "1", ".", "2">>
Ver_3_4_1 == <<"3", ".", "4", ".", "1">>
Ver_2_0_0 == <<"2", ".", "0", ".", "0">>
Ver_1_2 == <<"1", ".", "2">>

TagInputs ==
    {h \o b : h \in TagHeads, b \in SeqsUpTo(BodyChars, MaxBody)}
        \cup {Tag_REL_3_4_1, Tag_v2_0_0, Tag_ver_1_2}

PatternInputs == {NoName, "", PatRepack, PatPlain}

InitNorm ==
    /\ IdleCmp
    /\ IdleFetch
    /\ IdleRun
    /\ IdleEnv
    /\ IdleFloat
    /\ IdleDiff
    /\ IdleReport
    /\ n_tag \in TagInputs
    /\ n_pattern \in PatternInputs
    /\ n_out = None
    /\ n_pc = "call"
    /\ n_again = None

\* one call of normalize_version(n_tag, n_pattern)
Normalize ==
    /\ n_pc = "call"
    /\ n_out' = normalize_version(n_tag, n_pattern)
    /\ n_pc' = "done"
    /\ UNCHANGED <<n_tag, n_pattern, n_again,
                   cmpVars, fetchVars, runVars, envVars, floatVars, diffVars, reportVars>>

\* normalize_version(n_out) without a pattern, for an n_out that is not
\* absent: what line 219 of main does with the latest version of the server
NormalizeAgain ==
    /\ n_pc = "done"
    /\ n_out # None
    /\ n_again' = normalize_version(n_out, NoName)
    /\ n_pc' = "twice"
    /\ UNCHANGED <<n_tag, n_pattern, n_out,
                   cmpVars, fetchVars, runVars, envVars, floatVars, diffVars, reportVars>>

NextNorm == Normalize \/ NormalizeAgain

SpecNorm == InitNorm /\ [][NextNorm]_vars

---------------------------------------------------------------------------
(* compare_versions                                                        *)

\* int(part) for a run of decimal digits
RECURSIVE int(_)
int(part) ==
    IF part = <<>>
    THEN 0
    ELSE 10 * int(SubSeq(part, 1, Len(part) - 1))
           + (CHOOSE d \in 0..9 : part[Len(part)] = <<"0", "1", "2", "3", "4", "5", "6", "7", "8", "9">>[d + 1])

\* the end of the run of digits that starts at position p
RECURSIVE DigitRunEnd(_, _)
DigitRunEnd(s, p) ==
    IF p + 1 <= Len(s) /\ s[p + 1] \in Digits THEN DigitRunEnd(s, p + 1) ELSE p

\* re.findall(r"\d+", ver) from position p on: the runs of digits, in order
RECURSIVE findall_digits(_, _)
findall_digits(s, p) ==
    IF p > Len(s)
    THEN <<>>
    ELSE IF s[p] \in Digits
         THEN LET e == DigitRunEnd(s, p)
              IN  <<SubSeq(s, p, e)>> \o findall_digits(s, e + 1)
         ELSE findall_digits(s, p + 1)

\* the local function split of compare_versions (lines 155-156)
split(ver) == LET runs == findall_digits(ver, 1) IN [k \in 1..Len(runs) |-> int(runs[k])]

\* a < b for two Python lists of int: the first difference decides, and a
\* proper prefix is smaller
RECURSIVE list_less(_, _)
list_less(a, b) ==
    IF b = <<>>
    THEN FALSE
    ELSE IF a = <<>>
         THEN TRUE
         ELSE IF Head(a) # Head(b)
              THEN Head(a) < Head(b)
              ELSE list_less(Tail(a), Tail(b))

\* packaging.version.Version(s) on the strings the model hands to it, which
\* hold digits, periods, blanks, v and x only: surrounding whitespace and
\* one leading v are allowed, and what is left must be a release
\* N(.N)*; anything else raises InvalidVersion.
VersionValid(s) ==
    LET t == strip(s)
        u == IF t # <<>> /\ t[1] \in {"v", "V"} THEN Tail(t) ELSE t
    IN  /\ u # <<>>
        /\ \A k \in 1..Len(u) : u[k] \in Digits \cup {"."}
        /\ u[1] \in Digits
        /\ u[Len(u)] \in Digits
        /\ \A k \in 1..(Len(u) - 1) : ~(u[k] = "." /\ u[k + 1] = ".")

\* a release without its trailing zero components (Version's comparison key)
RECURSIVE strip_trailing_zeros(_)
strip_trailing_zeros(r) ==
    IF r # <<>> /\ r[Len(r)] = 0
    THEN strip_trailing_zeros(SubSeq(r, 1, Len(r) - 1))
    ELSE r

\* Version(a) < Version(b) for two valid versions of the above form
VersionLess(a, b) ==
    list_less(strip_trailing_zeros(split(a)), strip_trailing_zeros(split(b)))

\* compare_versions with the two absence tests in the other order
compare_versions_latest_first(installed, latest) ==
    IF Falsy(latest)
    THEN "unknown"
    ELSE IF Falsy(installed)
         THEN "not_installed"
         ELSE IF VersionValid(installed) /\ VersionValid(latest)
              THEN IF VersionLess(installed, latest) THEN "outdated" ELSE "current"
              ELSE IF list_less(split(installed), split(latest))
                   THEN "outdated"
                   ELSE "current"

\* lines 142-163.  Version is the imported class and always truthy; when
\* either Version(...) raises, the digit-run comparison decides.  int() of
\* a run of digits does not raise, so the except ValueError branch (line
\* 161) is not taken.
compare_versions(installed, latest) ==
    IF Falsy(installed)
    THEN "not_installed"
    ELSE IF Falsy(latest)
         THEN "unknown"
         ELSE IF VersionValid(installed) /\ VersionValid(latest)
              THEN IF VersionLess(installed, latest) THEN "outdated" ELSE "current"
              ELSE IF list_less(split(installed), split(latest))
                   THEN "outdated"
                   ELSE "current"

---------------------------------------------------------------------------
(* The calls of compare_versions that are checked: SpecCmp draws the two   *)
(* arguments and applies the function once.                                *)

\* the first component of a version, and the later ones
LeadTexts == {<<"1">>, <<"2">>}
PartTexts == {<<"0">>, <<"2">>, <<"1", "0">>}

\* the dotted versions of at most n components
RECURSIVE Dotted(_)
Dotted(n) ==
    IF n = 1
    THEN LeadTexts
    ELSE LET shorter == Dotted(n - 1)
         IN  shorter \cup {v \o <<".">> \o q : v \in shorter, q \in PartTexts}

Ver_1_2_0 == <<"1", ".", "2", ".", "0">>
Ver_1_10_0 == <<"1", ".", "1", "0", ".", "0">>
Ver_1_0_0 == <<"1", ".", "0", ".", "0">>

\* versions as they come: bare, with a leading v, with trailing text that
\* is no part of a version, and texts that hold no digit at all
VersionInputs ==
    {pre \o v \o post : pre \in {<<>>, <<"v">>}, v \in Dotted(MaxParts),
                        post \in {<<>>, <<" ", "x">>}}
        \cup {Ver_1_2_0, Ver_1_10_0, Ver_1_0_0, Ver_1_2, <<"x">>, <<".">>}

InitCmp ==
    /\ IdleNorm
    /\ IdleFetch
    /\ IdleRun
    /\ IdleEnv
    /\ IdleFloat
    /\ IdleDiff
    /\ IdleReport
    /\ c_installed \in VersionInputs \cup {None, <<>>}
    /\ c_latest \in VersionInputs \cup {None, <<>>}
    /\ c_out = ""
    /\ c_pc = "call"

\* one call of compare_versions(c_installed, c_latest)
Compare ==
    /\ c_pc = "call"
    /\ c_out' = compare_versions(c_installed, c_latest)
    /\ c_pc' = "done"
    /\ UNCHANGED <<c_installed, c_latest, normVars, fetchVars, runVars, envVars, floatVars, diffVars, reportVars>>

NextCmp == Compare

SpecCmp == InitCmp /\ [][NextCmp]_vars

---------------------------------------------------------------------------
(* fetch_github_latest.  What urlopen and json.load do with the release    *)
(* API's answer is the input: a response is [kind, tag_name, name], where   *)
(* kind says how the request ended and, for a JSON object, tag_name and    *)
(* name are data.get("tag_name") and data.get("name"): a string, None (no  *)
(* such key, or null) or NotAStr (a truthy JSON value that is no string).  *)

NotAStr == <<"NotAStr">>

\* the ways the try block (lines 168-178) ends in its except clause
CaughtKinds == {"network_error", "http_error", "timeout", "invalid_json"}

Returned(v) == [exc |-> "", val |-> v]
Raised(e) == [exc |-> e, val |-> None]

\* lines 166-180.  data.get is called outside the try block: a payload
\* that parses as JSON but is no object has no get.
fetch_github_latest(repo, response) ==
    IF response.kind \in CaughtKinds
    THEN Returned(None)
    ELSE IF response.kind = "not_object"
         THEN Raised("AttributeError")
         ELSE Returned(IF ~Falsy(response.tag_name)
                       THEN response.tag_name
                       ELSE response.name)

\* the answers of the release API
NoPayload(kind) == [kind |-> kind, tag_name |-> None, name |-> None]
Payload(tag_name, name) == [kind |-> "object", tag_name |-> tag_name, name |-> name]

PayloadValues == {None, <<>>, NotAStr, Ver_3_4_1, Tag_REL_3_4_1}

Responses ==
    {NoPayload(k) : k \in CaughtKinds \cup {"not_object"}}
        \cup {Payload(t, n) : t \in PayloadValues, n \in PayloadValues}

InitFetch ==
    /\ IdleNorm
    /\ IdleCmp
    /\ IdleRun
    /\ IdleEnv
    /\ IdleFloat
    /\ IdleDiff
    /\ IdleReport
    /\ f_repo \in {"postgis/postgis", "pgvector/pgvector", "reorg/pg_repack"}
    /\ f_response \in Responses
    /\ f_out = <<>>
    /\ f_pc = "call"

\* one call of fetch_github_latest(f_repo)
Fetch ==
    /\ f_pc = "call"
    /\ f_out' = fetch_github_latest(f_repo, f_response)
    /\ f_pc' = "done"
    /\ UNCHANGED <<f_repo, f_response, normVars, cmpVars, runVars, envVars, floatVars, diffVars, reportVars>>

NextFetch == Fetch

SpecFetch == InitFetch /\ [][NextFetch]_vars

---------------------------------------------------------------------------
(* resolve_latest                                                          *)

\* nesting of resolve_latest at which Python raises RecursionError
RecursionLimit == 6

\* ComponentConfig(name, source, repo, alias, pattern, kind), lines 28-35
ComponentConfig(name, source, repo, alias, pattern, kind) ==
    [name |-> name, source |-> source, repo |-> repo, alias |-> alias,
     pattern |-> pattern, kind |-> kind]

\* CONFIG.get(component): [found, cfg]
CONFIG_get(component) ==
    IF \E k \in 1..Len(CONFIG) : CONFIG[k].name = component
    THEN [found |-> TRUE,
          cfg |-> CONFIG[CHOOSE k \in 1..Len(CONFIG) : CONFIG[k].name = component]]
    ELSE [found |-> FALSE, cfg |-> <<>>]

\* d[key] = value on a dict held as a function
DictSet(d, key, value) == (key :> value) @@ d

\* what a call of resolve_latest leaves: the value returned (val) or the
\* exception raised (exc), the cache and the log of fetches
Outcome(val, e, c, log) == [val |-> val, exc |-> e, cache |-> c, fetched |-> log]

\* resolve_github that enters only a found version into the cache: an
\* absent one is looked up again by the next resolution
resolve_github_forget_absent(component, cfg, c, log) ==
    LET got == fetch_github_latest(cfg.repo, upstream[cfg.repo])
        log1 == Append(log, cfg.repo)
    IN  IF got.exc # ""
        THEN Outcome(None, got.exc, c, log1)
        ELSE IF got.val = NotAStr
             THEN Outcome(None,
                          IF ~FalsyName(cfg.pattern) THEN "TypeError" ELSE "AttributeError",
                          c, log1)
             ELSE LET latest == normalize_version(IF Falsy(got.val) THEN <<>> ELSE got.val,
                                                  cfg.pattern)
                  IN  Outcome(latest, "",
                              IF latest = None THEN c ELSE DictSet(c, component, latest),
                              log1)

\* lines 194-198 for a component cfg of source github with a repo.  A tag
\* that is no string passes "tag or ''" and fails in normalize_version: in
\* re.search when there is a pattern, in tag.strip() when there is none.
resolve_github(component, cfg, c, log) ==
    LET got == fetch_github_latest(cfg.repo, upstream[cfg.repo])
        log1 == Append(log, cfg.repo)
    IN  IF got.exc # ""
        THEN Outcome(None, got.exc, c, log1)
        ELSE IF got.val = NotAStr
             THEN Outcome(None,
                          IF ~FalsyName(cfg.pattern) THEN "TypeError" ELSE "AttributeError",
                          c, log1)
             ELSE LET latest == normalize_version(IF Falsy(got.val) THEN <<>> ELSE got.val,
                                                  cfg.pattern)
                  IN  Outcome(latest, "", DictSet(c, component, latest), log1)

\* resolve_latest that looks an alias up in the cache instead of resolving
\* it: right only when the target was resolved before
resolve_latest_cached_alias(component, c, log, depth) ==
    IF component \in DOMAIN c
    THEN Outcome(c[component], "", c, log)
    ELSE LET looked == CONFIG_get(component)
             cfg == looked.cfg
         IN  IF ~looked.found
             THEN Outcome(None, "", DictSet(c, component, None), log)
             ELSE IF cfg.source = "alias" /\ ~FalsyName(cfg.alias)
                  THEN LET v == IF cfg.alias \in DOMAIN c THEN c[cfg.alias] ELSE None
                       IN  Outcome(v, "", DictSet(c, component, v), log)
                  ELSE IF cfg.source = "github" /\ ~FalsyName(cfg.repo)
                       THEN resolve_github(component, cfg, c, log)
                       ELSE Outcome(None, "", DictSet(c, component, None), log)

\* resolve_latest that raises a configuration error for a name that is no
\* component and for a component that has nothing to resolve
RECURSIVE resolve_latest_strict(_, _, _, _)
resolve_latest_strict(component, c, log, depth) ==
    IF component \in DOMAIN c
    THEN Outcome(c[component], "", c, log)
    ELSE LET looked == CONFIG_get(component)
             cfg == looked.cfg
         IN  IF ~looked.found
             THEN Outcome(None, "ConfigError", c, log)
             ELSE IF cfg.source = "alias" /\ ~FalsyName(cfg.alias)
                  THEN IF depth >= RecursionLimit
                       THEN Outcome(None, "RecursionError", c, log)
                       ELSE LET r == resolve_latest_strict(cfg.alias, c, log, depth + 1)
                            IN  IF r.exc # ""
                                THEN r
                                ELSE Outcome(r.val, "",
                                             DictSet(r.cache, component, r.val),
                                             r.fetched)
                  ELSE IF cfg.source = "github" /\ ~FalsyName(cfg.repo)
                       THEN resolve_github(component, cfg, c, log)
                       ELSE Outcome(None, "ConfigError", c, log)

\* lines 183-200, at nesting depth
RECURSIVE resolve_latest(_, _, _, _)
resolve_latest(component, c, log, depth) ==
    IF component \in DOMAIN c
    THEN Outcome(c[component], "", c, log)
    ELSE LET looked == CONFIG_get(component)
             cfg == looked.cfg
         IN  IF ~looked.found
             THEN Outcome(None, "", DictSet(c, component, None), log)
             ELSE IF cfg.source = "alias" /\ ~FalsyName(cfg.alias)
                  THEN IF depth >= RecursionLimit
                       THEN Outcome(None, "RecursionError", c, log)
                       ELSE LET r == resolve_latest(cfg.alias, c, log, depth + 1)
                            IN  IF r.exc # ""
                                THEN r
                                ELSE Outcome(r.val, "",
                                             DictSet(r.cache, component, r.val),
                                             r.fetched)
                  ELSE IF cfg.source = "github" /\ ~FalsyName(cfg.repo)
                       THEN resolve_github(component, cfg, c, log)
                       ELSE Outcome(None, "", DictSet(c, component, None), log)

---------------------------------------------------------------------------
(* main                                                                    *)

\* x or "" for an Optional[str]
OrEmpty(x) == IF Falsy(x) THEN <<>> ELSE x

\* installed.get(name)
installed_get(name) ==
    IF name \in DOMAIN installed_exts THEN installed_exts[name] ELSE None

\* source_label that gives the source tag of every component
source_label_tag_only(cfg) == IF ~FalsyName(cfg.source) THEN cfg.source ELSE ""

\* cfg.alias or cfg.repo or cfg.source or ""  (line 226)
source_label(cfg) ==
    IF ~FalsyName(cfg.alias)
    THEN cfg.alias
    ELSE IF ~FalsyName(cfg.repo)
         THEN cfg.repo
         ELSE IF ~FalsyName(cfg.source) THEN cfg.source ELSE ""

\* installed_version_of that asks pg_extension for every component, the
\* server included
installed_version_of_extension_only(cfg) == installed_get(cfg.name)

\* line 213
installed_version_of(cfg) ==
    IF cfg.kind = "server" THEN server_version ELSE installed_get(cfg.name)

\* latest_version_of without the branch for core components: they are
\* resolved through their alias like any other
latest_version_of_resolve_core(cfg) ==
    LET r == resolve_latest(cfg.name, cache, fetched, 1)
    IN  IF r.exc = "" /\ ~Falsy(r.val) /\ cfg.kind = "server"
        THEN Outcome(normalize_version(r.val, NoName), "", r.cache, r.fetched)
        ELSE r

\* lines 214-219: [val, exc, cache, fetched]
latest_version_of(cfg) ==
    IF cfg.kind = "core"
    THEN Outcome(server_version, "", cache, fetched)
    ELSE LET r == resolve_latest(cfg.name, cache, fetched, 1)
         IN  IF r.exc = "" /\ ~Falsy(r.val) /\ cfg.kind = "server"
             THEN Outcome(normalize_version(r.val, NoName), "", r.cache, r.fetched)
             ELSE r

\* row_of that hands the two versions to compare_versions in the other
\* order
row_of_latest_first(cfg, installed_version, latest_version) ==
    [component |-> cfg.name,
     installed_version |-> OrEmpty(installed_version),
     latest_version |-> OrEmpty(latest_version),
     status |-> compare_versions(latest_version, installed_version),
     source |-> source_label(cfg)]

\* lines 221-227
row_of(cfg, installed_version, latest_version) ==
    [component |-> cfg.name,
     installed_version |-> OrEmpty(installed_version),
     latest_version |-> OrEmpty(latest_version),
     status |-> compare_versions(installed_version, latest_version),
     source |-> source_label(cfg)]

\* a run of main that starts with nothing in the cache
fresh_cache_empty == [name \in {} |-> None]

\* line 209: the cache a run of main starts with
fresh_cache == "postgresql" :> normalize_version(server_version, NoName)

\* one iteration of the loop of lines 212-227; an exception that
\* resolve_latest lets through ends main
MainIteration ==
    /\ pc = "loop"
    /\ idx <= Len(CONFIG)
    /\ LET cfg == CONFIG[idx]
           r == latest_version_of(cfg)
       IN  /\ cache' = r.cache
           /\ fetched' = r.fetched
           /\ IF r.exc # ""
              THEN /\ pc' = "crashed"
                   /\ exc' = r.exc
                   /\ UNCHANGED <<rows, idx>>
              ELSE /\ rows' = Append(rows, row_of(cfg, installed_version_of(cfg), r.val))
                   /\ idx' = idx + 1
                   /\ UNCHANGED <<pc, exc>>
    /\ UNCHANGED <<inputVars, upstream, invocation, prev_rows, prev_upstream,
                   argVars, outVars,
                   normVars, cmpVars, fetchVars, envVars, floatVars, diffVars, reportVars>>

\* lines 229-231: the rows left for display
display_rows_of(all_rows, only) ==
    IF only
    THEN SelectSeq(all_rows, LAMBDA row : row.status = "outdated")
    ELSE all_rows

\* what main prints for a full catalog only: the message in place of every
\* table that --only-outdated leaves short of a row
printed_of_all_current(all_rows, display, only, silent) ==
    IF silent
    THEN ""
    ELSE IF only /\ \A k \in 1..Len(all_rows) : all_rows[k].status = "current"
         THEN "up_to_date"
         ELSE "table"

\* lines 240-258: what goes to stdout
printed_of(all_rows, display, only, silent) ==
    IF silent
    THEN ""
    ELSE IF display = <<>> /\ only THEN "up_to_date" ELSE "table"

\* lines 229-260: the loop is over; the rows are filtered, written to the
\* file when there is one, printed unless main is quiet, and main returns
\* 0.  The three arguments are drawn here, where main first reads them.
MainReturn ==
    /\ pc = "loop"
    /\ idx > Len(CONFIG)
    /\ \E only \in BOOLEAN, silent \in BOOLEAN, file \in BOOLEAN :
          LET display == display_rows_of(rows, only)
          IN  /\ only_outdated' = only
              /\ quiet' = silent
              /\ output' = file
              /\ display_rows' = display
              /\ written' = IF file THEN display ELSE <<>>
              /\ printed' = printed_of(rows, display, only, silent)
    /\ pc' = "done"
    /\ UNCHANGED <<inputVars, upstream, cache, rows, idx, exc, fetched,
                   invocation, prev_rows, prev_upstream,
                   normVars, cmpVars, fetchVars, envVars, floatVars, diffVars, reportVars>>

\* MainAgain in which the second run goes on with the cache the first left
MainAgain_kept_cache ==
    /\ pc = "done"
    /\ invocation = "first"
    /\ invocation' = "second"
    /\ prev_rows' = rows
    /\ prev_upstream' = upstream
    /\ \E next \in {upstream} \cup
                    {[upstream EXCEPT ![r] = NoPayload(k)] :
                        r \in {q \in DOMAIN upstream : upstream[q].kind = "object"},
                        k \in {"timeout", "not_object"}} :
          upstream' = next
    /\ cache' = cache
    /\ rows' = <<>>
    /\ idx' = 1
    /\ pc' = "loop"
    /\ exc' = ""
    /\ fetched' = <<>>
    /\ only_outdated' = FALSE
    /\ quiet' = FALSE
    /\ output' = FALSE
    /\ display_rows' = <<>>
    /\ written' = <<>>
    /\ printed' = ""
    /\ UNCHANGED <<inputVars, normVars, cmpVars, fetchVars, envVars, floatVars, diffVars, reportVars>>

\* main is run again (a second process): lines 203-210 build a new cache
\* and a new list of rows.  Upstream is as before, or one repository that
\* answered with a usable tag no longer does.
MainAgain ==
    /\ pc = "done"
    /\ invocation = "first"
    /\ invocation' = "second"
    /\ prev_rows' = rows
    /\ prev_upstream' = upstream
    /\ \E next \in {upstream} \cup
                    {[upstream EXCEPT ![r] = NoPayload(k)] :
                        r \in {q \in DOMAIN upstream : upstream[q].kind = "object"},
                        k \in {"timeout", "not_object"}} :
          upstream' = next
    /\ cache' = fresh_cache
    /\ rows' = <<>>
    /\ idx' = 1
    /\ pc' = "loop"
    /\ exc' = ""
    /\ fetched' = <<>>
    /\ only_outdated' = FALSE
    /\ quiet' = FALSE
    /\ output' = FALSE
    /\ display_rows' = <<>>
    /\ written' = <<>>
    /\ printed' = ""
    /\ UNCHANGED <<inputVars, normVars, cmpVars, fetchVars, envVars, floatVars, diffVars, reportVars>>

---------------------------------------------------------------------------
(* The runs of main that are checked.  CONFIG is the module-level dict of  *)
(* lines 38-66; the catalogs below are excerpts of it that keep one entry  *)
(* of each shape, alias chains of every order, and catalogs that break the *)
(* rules of the data model.                                                *)

Cfg_postgresql ==
    ComponentConfig("postgresql", "github", "postgres/postgres", NoName, NoName, "server")
Cfg_postgis ==
    ComponentConfig("postgis", "github", "postgis/postgis", NoName, NoName, "extension")
Cfg_postgis_raster ==
    ComponentConfig("postgis_raster", "alias", NoName, "postgis", NoName, "extension")
Cfg_pg_repack ==
    ComponentConfig("pg_repack", "github", "reorg/pg_repack", NoName, PatRepack, "extension")
Cfg_pgcrypto ==
    ComponentConfig("pgcrypto", "alias", NoName, "postgresql", NoName, "core")

\* the catalog of the end-to-end scenario: the first entries of CONFIG
CatalogScenario == <<Cfg_postgresql, Cfg_postgis, Cfg_postgis_raster>>

\* one entry of CONFIG of each shape, in CONFIG's order
CatalogShapes ==
    <<Cfg_postgresql, Cfg_postgis, Cfg_postgis_raster, Cfg_pg_repack, Cfg_pgcrypto>>

\* a chain of n aliases behind a github component: link 1 names the
\* component, link k + 1 names link k
ChainNames == <<"link1", "link2", "link3", "link4", "link5", "link6">>
Cfg_tracked ==
    ComponentConfig("tracked", "github", "org/tracked", NoName, NoName, "extension")
Cfg_link(k) ==
    ComponentConfig(ChainNames[k], "alias", NoName,
                    IF k = 1 THEN "tracked" ELSE ChainNames[k - 1], NoName, "extension")

\* every order in which the entries of a set can stand in a catalog
RECURSIVE Orders(_)
Orders(entries) ==
    IF entries = {}
    THEN {<<>>}
    ELSE UNION {{<<e>> \o rest : rest \in Orders(entries \ {e})} : e \in entries}

ChainCatalogs == Orders({Cfg_tracked} \cup {Cfg_link(k) : k \in 1..MaxChain})

\* catalogs the data model forbids: an alias to a name that is no
\* component, a github component without repo, a component of source none,
\* and aliases that form a cycle
CatalogDangling ==
    <<Cfg_postgis,
      ComponentConfig("ghost", "alias", NoName, "missing", NoName, "extension"),
      ComponentConfig("norepo", "github", NoName, NoName, NoName, "extension"),
      ComponentConfig("plain", "none", NoName, NoName, NoName, "extension"),
      ComponentConfig("plain_alias", "alias", NoName, "plain", NoName, "extension")>>
CatalogCycle ==
    <<Cfg_postgis,
      ComponentConfig("loop_a", "alias", NoName, "loop_b", NoName, "extension"),
      ComponentConfig("loop_b", "alias", NoName, "loop_a", NoName, "extension")>>

Catalogs ==
    {CatalogScenario, CatalogShapes, CatalogDangling, CatalogCycle} \cup ChainCatalogs

Ver_16_2 == <<"1", "6", ".", "2">>
Ver_3_3_0 == <<"3", ".", "3", ".", "0">>
Ver_17_0 == <<"1", "7", ".", "0">>

\* SHOW server_version: bare, with text behind it, and with a leading v
ServerVersions ==
    {Ver_16_2, Ver_16_2 \o <<" ", "x">>, <<"v">> \o Ver_16_2}

\* pg_extension: nothing installed; the second component of the catalog
\* alone, behind upstream; every component at 3.4.1 and an extension the
\* catalog does not track
InstalledChoices(catalog) ==
    { <<>>,
      catalog[2].name :> Ver_3_3_0,
      [n \in {catalog[k].name : k \in 1..Len(catalog)} \cup {"plpgsql"} |-> Ver_3_4_1] }

\* what the release API answers during a run
RunResponses ==
    { Payload(Ver_3_4_1, None), Payload(<<>>, Tag_REL_3_4_1), Payload(<<"x">>, None),
      Payload(Ver_17_0, None),
      Payload(None, None), Payload(NotAStr, None),
      NoPayload("timeout"), NoPayload("not_object") }

ReposOf(catalog) ==
    {catalog[k].repo : k \in 1..Len(catalog)} \ {NoName}

InitRun ==
    /\ IdleNorm
    /\ IdleCmp
    /\ IdleFetch
    /\ IdleEnv
    /\ IdleFloat
    /\ IdleDiff
    /\ IdleReport
    /\ CONFIG \in Catalogs
    /\ server_version \in ServerVersions
    /\ installed_exts \in InstalledChoices(CONFIG)
    /\ upstream \in [ReposOf(CONFIG) -> RunResponses]
    /\ cache = fresh_cache
    /\ rows = <<>>
    /\ idx = 1
    /\ pc = "loop"
    /\ exc = ""
    /\ fetched = <<>>
    /\ invocation = "first"
    /\ prev_rows = <<>>
    /\ prev_upstream = <<>>
    /\ only_outdated = FALSE
    /\ quiet = FALSE
    /\ output = FALSE
    /\ display_rows = <<>>
    /\ written = <<>>
    /\ printed = ""

NextRun == MainIteration \/ MainReturn \/ MainAgain

SpecRun == InitRun /\ [][NextRun]_vars

---------------------------------------------------------------------------
(* scripts/lib/update_env_var.py.  A file is the sequence of its           *)
(* characters, or NoFile when the path does not exist.                     *)

\* most lines of a file handed to update_env_var
MaxLines == 3

NoFile == <<"NoFile">>

\* Path.read_text(): the file is opened in text mode with newline=None, so
\* "\r\n" and "\r" are read as "\n"
RECURSIVE read_text(_)
read_text(content) ==
    IF content = <<>>
    THEN <<>>
    ELSE IF content[1] = "\r"
         THEN <<"\n">> \o read_text(IF Len(content) >= 2 /\ content[2] = "\n"
                                    THEN Drop(content, 3)
                                    ELSE Tail(content))
         ELSE <<content[1]>> \o read_text(Tail(content))

\* the characters at which str.splitlines() ends a line: besides "\n" and
\* "\r" the form feed, and as the form feed the characters \v, \x1c,
\* \x1d, \x1e, \x85, U+2028 and U+2029
LineBoundaries == {"\n", "\r", "\f"}

\* str.splitlines(): the lines without their ends; "\r\n" is one end, and
\* the end of the last line opens no further line
RECURSIVE splitlines(_)
splitlines(text) ==
    IF text = <<>>
    THEN <<>>
    ELSE LET ends == {k \in 1..Len(text) : text[k] \in LineBoundaries}
         IN  IF ends = {}
             THEN <<text>>
             ELSE LET k == CHOOSE e \in ends : \A other \in ends : e <= other
                      next == IF text[k] = "\r" /\ k < Len(text) /\ text[k + 1] = "\n"
                              THEN k + 2
                              ELSE k + 1
                  IN  <<SubSeq(text, 1, k - 1)>> \o splitlines(Drop(text, next))

\* str.startswith(prefix)
startswith(line, prefix) ==
    Len(line) >= Len(prefix) /\ SubSeq(line, 1, Len(prefix)) = prefix

\* "\n".join(lines)
RECURSIVE join(_)
join(lines) ==
    IF lines = <<>>
    THEN <<>>
    ELSE IF Len(lines) = 1
         THEN lines[1]
         ELSE lines[1] \o <<"\n">> \o join(Tail(lines))

\* f"{key}={value}"
assignment(key, value) == key \o <<"=">> \o value

\* lines 18-28: the list lines once the loop and the append are over
new_lines(old, key, value) ==
    LET kept == [k \in 1..Len(old) |->
                    IF startswith(old[k], key \o <<"=">>)
                    THEN assignment(key, value)
                    ELSE old[k]]
        found == \E k \in 1..Len(old) : startswith(old[k], key \o <<"=">>)
    IN  IF found THEN kept ELSE Append(kept, assignment(key, value))

\* lines 13-30 for a path that exists: the content written to it
update_env_var(content, key, value) ==
    join(new_lines(splitlines(read_text(content)), key, value)) \o <<"\n">>

\* the texts of the lines of the files checked: the key K set, a key that
\* K is a prefix of, a key that ends in K, an empty line, K without "=",
\* and a text with a form feed in it
EnvLineTexts ==
    { <<"K", "=", "1">>, <<"K", "=", "2">>, <<"K", "X", "=", "1">>,
      <<"X", "K", "=", "1">>, <<>>, <<"K">>, <<"X", "\f", "K", "=", "1">> }

\* the lines, each but the last followed by the line end nl, and the last
\* too when the file ends in a line end
RECURSIVE render(_, _, _)
render(lines, nl, final) ==
    IF lines = <<>>
    THEN <<>>
    ELSE lines[1] \o (IF Len(lines) > 1 \/ final THEN nl ELSE <<>>)
                  \o render(Tail(lines), nl, final)

EnvFiles ==
    {NoFile} \cup
    { render(lines, nl, final) :
        lines \in UNION {[1..n -> EnvLineTexts] : n \in 0..MaxLines},
        nl \in {<<"\n">>, <<"\r", "\n">>},
        final \in BOOLEAN }

EnvKeys == {<<"K">>, <<"K", "X">>}

\* the values: one character, none, and two lines
EnvValues == {<<"2">>, <<>>, <<"2", "\n", "3">>}

\* main has not returned
NoReturn == -1

\* sys.argv for main: the script, the path, a key and a value, and command
\* lines with fewer and with more arguments than these
ScriptName == <<"s">>
PathName == <<"f">>
EnvArgvs ==
    {<<ScriptName, PathName, key, value>> : key \in EnvKeys, value \in EnvValues}
        \cup {<<ScriptName>>, <<ScriptName, PathName>>,
              <<ScriptName, PathName, <<"K">>>>,
              <<ScriptName, PathName, <<"K">>, <<"2">>, <<"2">>>>}

\* update_env_var(file_path, key, value), lines 13-30, on a path whose
\* content is file: the exception raised, the content left and the calls
\* made on the path
update_env_call(file, key, value) ==
    IF file = NoFile
    THEN [exc |-> "FileNotFoundError", out |-> NoFile, io |-> <<"exists">>]
    ELSE [exc |-> "", out |-> update_env_var(file, key, value),
          io |-> <<"exists", "read_text", "write_text">>]

\* main that takes the first three arguments and lets further ones pass
update_env_main_extra_arguments(argv, file) ==
    IF Len(argv) < 4
    THEN [ret |-> 1, exc |-> "", out |-> file, io |-> <<>>]
    ELSE LET r == update_env_call(file, argv[3], argv[4])
         IN  [ret |-> IF r.exc # "" THEN 1 ELSE 0, exc |-> r.exc, out |-> r.out, io |-> r.io]

\* main(argv), lines 33-44
update_env_main(argv, file) ==
    IF Len(argv) # 4
    THEN [ret |-> 1, exc |-> "", out |-> file, io |-> <<>>]
    ELSE LET r == update_env_call(file, argv[3], argv[4])
         IN  [ret |-> IF r.exc # "" THEN 1 ELSE 0, exc |-> r.exc, out |-> r.out, io |-> r.io]

\* the function is called (u_pc = "call") or the script is run
\* (u_pc = "main")
InitEnv ==
    /\ IdleNorm
    /\ IdleCmp
    /\ IdleFetch
    /\ IdleRun
    /\ IdleFloat
    /\ IdleDiff
    /\ IdleReport
    /\ u_file \in EnvFiles
    /\ \/ /\ u_pc = "call"
          /\ u_argv = <<>>
          /\ u_key \in EnvKeys
          /\ u_value \in EnvValues
       \/ /\ u_pc = "main"
          /\ u_argv \in EnvArgvs
          /\ u_key = IF Len(u_argv) = 4 THEN u_argv[3] ELSE <<>>
          /\ u_value = IF Len(u_argv) = 4 THEN u_argv[4] ELSE <<>>
    /\ u_out = u_file
    /\ u_exc = ""
    /\ u_ret = NoReturn
    /\ u_io = <<>>
    /\ u_again = <<>>

\* update_env_var(file_path, key, value): lines 15-16 when the path does
\* not exist, lines 18-30 when it does
UpdateEnvVar ==
    /\ u_pc = "call"
    /\ u_pc' = "done"
    /\ IF u_file = NoFile
       THEN /\ u_exc' = "FileNotFoundError"
            /\ u_out' = NoFile
       ELSE /\ u_exc' = ""
            /\ u_out' = update_env_var(u_file, u_key, u_value)
    /\ u_io' = update_env_call(u_file, u_key, u_value).io
    /\ UNCHANGED <<u_file, u_key, u_value, u_argv, u_ret, u_again,
                   normVars, cmpVars, fetchVars, runVars, floatVars, diffVars, reportVars>>

\* the same call once more, on the file the first call left
UpdateEnvVarAgain ==
    /\ u_pc = "done"
    /\ u_exc = ""
    /\ u_pc' = "twice"
    /\ u_again' = update_env_call(u_out, u_key, u_value).out
    /\ u_io' = u_io \o update_env_call(u_out, u_key, u_value).io
    /\ UNCHANGED <<u_file, u_key, u_value, u_out, u_exc, u_argv, u_ret,
                   normVars, cmpVars, fetchVars, runVars, floatVars, diffVars, reportVars>>

\* main(sys.argv), lines 33-44
UpdateEnvMain ==
    /\ u_pc = "main"
    /\ u_pc' = "returned"
    /\ \E r \in {update_env_main(u_argv, u_file)} :
          /\ u_ret' = r.ret
          /\ u_exc' = r.exc
          /\ u_out' = r.out
          /\ u_io' = r.io
    /\ UNCHANGED <<u_file, u_key, u_value, u_argv, u_again,
                   normVars, cmpVars, fetchVars, runVars, floatVars, diffVars, reportVars>>

NextEnv == UpdateEnvVar \/ UpdateEnvVarAgain \/ UpdateEnvMain

SpecEnv == InitEnv /\ [][NextEnv]_vars

---------------------------------------------------------------------------
(* scripts/lib/compare_float.py.  A float is a record: not a number, an    *)
(* infinity with its sign in num, or the finite number num * 10^pow.  The  *)
(* numbers of the model have at most three digits, so each is a double of  *)
(* its own and the order of the doubles is the order of the numbers.       *)

\* most arguments on a command line of compare_float
MaxArgs == 4

ValueError == [ok |-> FALSE, kind |-> "ValueError", num |-> 0, pow |-> 0]
NaN == [ok |-> TRUE, kind |-> "nan", num |-> 0, pow |-> 0]
Infinity(sign) == [ok |-> TRUE, kind |-> "inf", num |-> sign, pow |-> 0]
Finite(num, pow) == [ok |-> TRUE, kind |-> "fin", num |-> num, pow |-> pow]

\* a digit part of a float literal: digits, with single underscores between
\* digits only
DigitPart(p) ==
    /\ p # <<>>
    /\ \A k \in 1..Len(p) : p[k] \in Digits \cup {"_"}
    /\ p[1] \in Digits
    /\ p[Len(p)] \in Digits
    /\ \A k \in 1..(Len(p) - 1) : ~(p[k] = "_" /\ p[k + 1] = "_")

\* the digits of a digit part
DigitsOf(p) == SelectSeq(p, LAMBDA c : c \in Digits)

\* the first position of s that holds a character of chars, 0 when none does
Find(s, chars) ==
    IF \E k \in 1..Len(s) : s[k] \in chars
    THEN CHOOSE k \in 1..Len(s) :
             s[k] \in chars /\ \A j \in 1..(k - 1) : s[j] \notin chars
    ELSE 0

\* the letters of inf, infinity and nan in lower case
FloatLower(c) ==
    CASE c = "I" -> "i"
      [] c = "N" -> "n"
      [] c = "F" -> "f"
      [] c = "A" -> "a"
      [] c = "T" -> "t"
      [] c = "Y" -> "y"
      [] OTHER -> c

\* float(text) for an unsigned decimal literal: digits, fraction, exponent
float_decimal(sign, text) ==
    LET e == Find(text, {"e", "E"})
        mantissa == IF e = 0 THEN text ELSE SubSeq(text, 1, e - 1)
        exponent == IF e = 0 THEN <<>> ELSE Drop(text, e + 1)
        esigned == exponent # <<>> /\ exponent[1] \in {"+", "-"}
        edigits == IF esigned THEN Tail(exponent) ELSE exponent
        dot == Find(mantissa, {"."})
        whole == IF dot = 0 THEN mantissa ELSE SubSeq(mantissa, 1, dot - 1)
        fraction == IF dot = 0 THEN <<>> ELSE Drop(mantissa, dot + 1)
    IN  IF \/ e # 0 /\ ~DigitPart(edigits)
           \/ whole = <<>> /\ fraction = <<>>
           \/ whole # <<>> /\ ~DigitPart(whole)
           \/ fraction # <<>> /\ ~DigitPart(fraction)
        THEN ValueError
        ELSE LET ev == IF e = 0
                       THEN 0
                       ELSE (IF esigned /\ exponent[1] = "-" THEN -1 ELSE 1)
                               * int(DigitsOf(edigits))
             IN  Finite(sign * int(DigitsOf(whole) \o DigitsOf(fraction)),
                        ev - Len(DigitsOf(fraction)))

\* float(text): surrounding whitespace and a sign are allowed, then inf,
\* infinity or nan in any letter case, or a decimal literal
float(text) ==
    LET t == strip(text)
        signed == t # <<>> /\ t[1] \in {"+", "-"}
        sign == IF signed /\ t[1] = "-" THEN -1 ELSE 1
        body == IF signed THEN Tail(t) ELSE t
        low == [k \in 1..Len(body) |-> FloatLower(body[k])]
    IN  IF low = <<"n", "a", "n">>
        THEN NaN
        ELSE IF low \in {<<"i", "n", "f">>, <<"i", "n", "f", "i", "n", "i", "t", "y">>}
             THEN Infinity(sign)
             ELSE float_decimal(sign, body)

\* a < b for two floats
FloatLess(a, b) ==
    IF a.kind = "nan" \/ b.kind = "nan"
    THEN FALSE
    ELSE IF a.kind = "inf"
         THEN a.num < 0 /\ ~(b.kind = "inf" /\ b.num < 0)
         ELSE IF b.kind = "inf"
              THEN b.num > 0
              ELSE LET p == IF a.pow < b.pow THEN a.pow ELSE b.pow
                   IN  a.num * 10^(a.pow - p) < b.num * 10^(b.pow - p)

\* a == b for two floats
FloatEqual(a, b) ==
    /\ a.kind # "nan"
    /\ b.kind # "nan"
    /\ ~FloatLess(a, b)
    /\ ~FloatLess(b, a)

\* OPERATORS[name](a, b), lines 12-17
OPERATORS(name, a, b) ==
    CASE name = "lt" -> FloatLess(a, b)
      [] name = "le" -> FloatLess(a, b) \/ FloatEqual(a, b)
      [] name = "gt" -> FloatLess(b, a)
      [] name = "ge" -> FloatLess(b, a) \/ FloatEqual(a, b)

Flag(name) == <<"-", "-">> \o name
FlagNames == {<<"l", "t">>, <<"l", "e">>, <<"g", "t">>, <<"g", "e">>}

\* argparse's test for a negative number: -\d+ or -\d*\.\d+
NegativeNumber(arg) ==
    /\ Len(arg) >= 2
    /\ arg[1] = "-"
    /\ LET rest == Tail(arg)
           dot == Find(rest, {"."})
       IN  IF dot = 0
           THEN \A k \in 1..Len(rest) : rest[k] \in Digits
           ELSE /\ dot < Len(rest)
                /\ \A k \in 1..Len(rest) : k # dot => rest[k] \in Digits

\* how argparse reads one argument: as one of the four flags ("flag"), as a
\* positional ("value"), or as an option it does not know ("unknown": it
\* begins with "-", is longer than that, is no negative number and holds no
\* space)
ArgumentClass(arg) ==
    IF \E name \in FlagNames : arg = Flag(name)
    THEN "flag"
    ELSE IF arg = <<>> \/ arg[1] # "-" \/ Len(arg) = 1
         THEN "value"
         ELSE IF NegativeNumber(arg) \/ \E k \in 1..Len(arg) : arg[k] = " "
              THEN "value"
              ELSE "unknown"

Returned2(code) == [how |-> "return", code |-> code]
Exited(code) == [how |-> "exit", code |-> code]

\* parse_args(argv), lines 20-29: the namespace, or ok = FALSE when the
\* parser ends the process with status 2 (an option it does not know, two
\* different flags of the exclusive group, not exactly two positionals)
parse_args(argv) ==
    LET flags == {argv[k] : k \in {j \in 1..Len(argv) : ArgumentClass(argv[j]) = "flag"}}
        values == SelectSeq(argv, LAMBDA arg : ArgumentClass(arg) = "value")
    IN  IF \/ \E k \in 1..Len(argv) : ArgumentClass(argv[k]) = "unknown"
           \/ Cardinality(flags) > 1
           \/ Len(values) # 2
        THEN [ok |-> FALSE, lt |-> FALSE, le |-> FALSE, gt |-> FALSE, ge |-> FALSE,
              lhs |-> <<>>, rhs |-> <<>>]
        ELSE [ok |-> TRUE,
              lt |-> Flag(<<"l", "t">>) \in flags,
              le |-> Flag(<<"l", "e">>) \in flags,
              gt |-> Flag(<<"g", "t">>) \in flags,
              ge |-> Flag(<<"g", "e">>) \in flags,
              lhs |-> values[1], rhs |-> values[2]]

\* select_operator(args), lines 32-39: the name of the operator
select_operator(args) ==
    IF args.lt THEN "lt" ELSE IF args.gt THEN "gt" ELSE IF args.ge THEN "ge" ELSE "le"

\* main(argv), lines 42-50
compare_float_main(argv) ==
    LET args == parse_args(argv)
        op == select_operator(args)
        lhs == float(args.lhs)
        rhs == float(args.rhs)
    IN  IF ~args.ok
        THEN Exited(2)
        ELSE IF ~lhs.ok \/ ~rhs.ok
             THEN Returned2(2)
             ELSE IF OPERATORS(op, lhs, rhs) THEN Returned2(0) ELSE Returned2(1)

\* the arguments of the command lines checked: the flags, numbers with and
\* without sign, fraction and exponent, nan, and a text that is no number
Txt_1 == <<"1">>
Txt_2 == <<"2">>
Txt_1_5 == <<"1", ".", "5">>
Txt_m1 == <<"-", "1">>
Txt_1e1 == <<"1", "e", "1">>
Txt_m1e1 == <<"-", "1", "e", "1">>
Txt_nan == <<"n", "a", "n">>
Txt_x == <<"x">>

FloatArguments ==
    {Flag(name) : name \in FlagNames}
        \cup {Txt_1, Txt_2, Txt_1_5, Txt_m1, Txt_1e1, Txt_m1e1, Txt_nan, Txt_x}

InitFloat ==
    /\ IdleNorm
    /\ IdleCmp
    /\ IdleFetch
    /\ IdleRun
    /\ IdleEnv
    /\ IdleDiff
    /\ IdleReport
    /\ cf_argv \in UNION {[1..n -> FloatArguments] : n \in 0..MaxArgs}
    /\ cf_out = <<>>
    /\ cf_pc = "call"

CompareFloat ==
    /\ cf_pc = "call"
    /\ cf_out' = compare_float_main(cf_argv)
    /\ cf_pc' = "done"
    /\ UNCHANGED <<cf_argv, normVars, cmpVars, fetchVars, runVars, envVars, diffVars, reportVars>>

NextFloat == CompareFloat

SpecFloat == InitFloat /\ [][NextFloat]_vars

---------------------------------------------------------------------------
(* scripts/perf_diff.py.  A snapshot file is what csv.DictReader makes of  *)
(* it: the set of its column names and the sequence of its rows, each a    *)
(* record of texts.  The numbers are finite; their differences are exact   *)
(* in the model, and the texts are chosen so that no difference lies       *)
(* halfway between two hundredths, where the binary digits of the double   *)
(* would decide the rounding.                                              *)

\* most rows of a snapshot file
MaxRows == 2

Columns == {"datname", "queryid", "calls", "total_exec_time", "rows"}

\* a - b for two finite floats
FloatSub(a, b) ==
    LET q == IF a.pow < b.pow THEN a.pow ELSE b.pow
    IN  Finite(a.num * 10^(a.pow - q) - b.num * 10^(b.pow - q), q)

\* float(text or 0), lines 31-33
number_or_zero(text) == IF text = <<>> THEN Finite(0, 0) ELSE float(text)

\* the key of a row, line 27
key_of(row) == <<row.datname, row.queryid>>

\* load_snapshot(path), lines 18-35: the dict, or the ValueError of a
\* missing column or of a text that is no number
load_snapshot(file) ==
    LET numbers(row) == [calls |-> number_or_zero(row.calls),
                         total_exec_time |-> number_or_zero(row.total_exec_time),
                         rows |-> number_or_zero(row.rows)]
        good(row) == numbers(row).calls.ok /\ numbers(row).total_exec_time.ok
                        /\ numbers(row).rows.ok
        keys == {key_of(file.rows[k]) : k \in 1..Len(file.rows)}
        last(key) == CHOOSE k \in 1..Len(file.rows) :
                         /\ key_of(file.rows[k]) = key
                         /\ \A j \in (k + 1)..Len(file.rows) : key_of(file.rows[j]) # key
    IN  IF ~(Columns \subseteq file.fieldnames)
        THEN [exc |-> "ValueError", data |-> <<>>]
        ELSE IF \E k \in 1..Len(file.rows) : ~good(file.rows[k])
             THEN [exc |-> "ValueError", data |-> <<>>]
             ELSE [exc |-> "", data |-> [key \in keys |-> numbers(file.rows[last(key)])]]

\* lines 50-51: what a snapshot holds for a key
snapshot_get(data, key) ==
    IF key \in DOMAIN data
    THEN data[key]
    ELSE [calls |-> Finite(0, 0), total_exec_time |-> Finite(0, 0), rows |-> Finite(0, 0)]

\* delta_of that takes the compare snapshot from the base snapshot
delta_of_base_minus_compare(base, compare, key) ==
    LET b == snapshot_get(base, key)
        c == snapshot_get(compare, key)
    IN  [datname |-> key[1],
         queryid |-> key[2],
         calls_delta |-> FloatSub(b.calls, c.calls),
         exec_time_delta |-> FloatSub(b.total_exec_time, c.total_exec_time),
         rows_delta |-> FloatSub(b.rows, c.rows)]

\* lines 50-58: the delta of a key
delta_of(base, compare, key) ==
    LET b == snapshot_get(base, key)
        c == snapshot_get(compare, key)
    IN  [datname |-> key[1],
         queryid |-> key[2],
         calls_delta |-> FloatSub(c.calls, b.calls),
         exec_time_delta |-> FloatSub(c.total_exec_time, b.total_exec_time),
         rows_delta |-> FloatSub(c.rows, b.rows)]

\* the sort without reverse=True: smallest exec_time_delta first
RECURSIVE sort_ascending(_)
sort_ascending(list) ==
    IF list = <<>>
    THEN <<>>
    ELSE LET d == Head(list)
             rest == sort_ascending(Tail(list))
             before == Cardinality({k \in 1..Len(rest) :
                           FloatLess(rest[k].exec_time_delta, d.exec_time_delta)})
         IN  SubSeq(rest, 1, before) \o <<d>> \o Drop(rest, before + 1)

\* list.sort(key = exec_time_delta, reverse=True), line 61: the sort is
\* stable, rows of equal key keep the order they came in
RECURSIVE sort_reverse(_)
sort_reverse(list) ==
    IF list = <<>>
    THEN <<>>
    ELSE LET d == Head(list)
             rest == sort_reverse(Tail(list))
             before == Cardinality({k \in 1..Len(rest) :
                           FloatLess(d.exec_time_delta, rest[k].exec_time_delta)})
         IN  SubSeq(rest, 1, before) \o <<d>> \o Drop(rest, before + 1)

\* f"{x:.2f}": the sign and the hundredths, rounded to the nearest
format_2f(x) ==
    LET n == IF x.num < 0 THEN -x.num ELSE x.num
        shift == x.pow + 2
        d == 10^(IF shift < 0 THEN -shift ELSE 0)
        q == n \div d
        r == n % d
    IN  [negative |-> x.num < 0,
         hundredths |-> IF shift >= 0
                        THEN n * 10^shift
                        ELSE IF 2 * r > d \/ (2 * r = d /\ q % 2 = 1) THEN q + 1 ELSE q]

\* lines 67-73: a row as it is written
written_row(d) ==
    [datname |-> d.datname,
     queryid |-> d.queryid,
     calls_delta |-> format_2f(d.calls_delta),
     exec_time_delta |-> format_2f(d.exec_time_delta),
     rows_delta |-> format_2f(d.rows_delta)]

\* deltas[:limit] with limit as line 62 sets it
limited(deltas, limit) ==
    LET n == IF limit > 0 THEN limit ELSE Len(deltas)
    IN  SubSeq(deltas, 1, IF n < Len(deltas) THEN n ELSE Len(deltas))

\* the rows of the snapshots checked: a query, the same query with larger
\* numbers, another query of the same database with an empty field, a
\* query of the same id in another database, and a row whose
\* total_exec_time is no number
SnapshotRow(datname, queryid, calls, total_exec_time, nrows) ==
    [datname |-> datname, queryid |-> queryid, calls |-> calls,
     total_exec_time |-> total_exec_time, rows |-> nrows]

SnapshotRows ==
    { SnapshotRow("a", "1", Txt_1, Txt_1, Txt_2),
      SnapshotRow("a", "1", <<"3">>, <<"2", ".", "5", "0", "4">>, Txt_2),
      SnapshotRow("a", "2", Txt_1, Txt_1, <<>>),
      SnapshotRow("b", "1", <<>>, <<>>, Txt_1),
      SnapshotRow("b", "1", Txt_1, Txt_x, Txt_1) }

\* the snapshot files: every sequence of at most MaxRows rows under the
\* full header, and a file whose header lacks a column
SnapshotFiles ==
    {[fieldnames |-> Columns, rows |-> rs] :
        rs \in UNION {[1..n -> SnapshotRows] : n \in 0..MaxRows}}
        \cup {[fieldnames |-> Columns \ {"queryid"}, rows |-> <<>>]}

Limits == {-1, 0, 1, 2}

InitDiff ==
    /\ IdleNorm
    /\ IdleCmp
    /\ IdleFetch
    /\ IdleRun
    /\ IdleEnv
    /\ IdleFloat
    /\ IdleReport
    /\ p_base \in SnapshotFiles
    /\ p_compare \in SnapshotFiles
    /\ p_limit \in Limits
    /\ p_deltas = <<>>
    /\ p_out = <<>>
    /\ p_pc = "call"
    /\ p_exc = ""

\* main(), lines 45-74.  The loop of line 49 goes through a set of keys:
\* the order is that of the hashes, which differs from run to run, so
\* every order is drawn.
PerfDiff ==
    /\ p_pc = "call"
    /\ p_pc' = "done"
    /\ \E base \in {load_snapshot(p_base)}, compare \in {load_snapshot(p_compare)} :
          IF base.exc # "" \/ compare.exc # ""
          THEN /\ p_exc' = IF base.exc # "" THEN base.exc ELSE compare.exc
               /\ UNCHANGED <<p_deltas, p_out>>
          ELSE \E order \in Orders(DOMAIN base.data \cup DOMAIN compare.data) :
                   \E deltas \in {sort_reverse([k \in 1..Len(order) |->
                                     delta_of(base.data, compare.data, order[k])])} :
                       \E shown \in {limited(deltas, p_limit)} :
                           /\ p_deltas' = deltas
                           /\ p_out' = [k \in 1..Len(shown) |-> written_row(shown[k])]
                           /\ p_exc' = ""
    /\ UNCHANGED <<p_base, p_compare, p_limit,
                   normVars, cmpVars, fetchVars, runVars, envVars, floatVars, reportVars>>

NextDiff == PerfDiff

SpecDiff == InitDiff /\ [][NextDiff]_vars

---------------------------------------------------------------------------
(* generate_report.py                                                      *)
(*                                                                         *)
(* A CSV file is the sequence of its records as csv.reader yields them: a  *)
(* record is the sequence of its fields, each a sequence of characters,    *)
(* and the empty record is a blank line.  The first record is the header   *)
(* line.  The report is the sequence of its sections; the markup around    *)
(* them, lines 113-132, is the same in every report.                       *)

\* lines 15-28; suffix is Path(filename).suffix of line 91
SectionFile(title, filename, suffix) ==
    [title |-> title, filename |-> filename, suffix |-> suffix]
SECTION_FILES ==
    <<SectionFile("Autovacuum Findings", "autovacuum_findings.csv", ".csv"),
      SectionFile("Index Bloat", "index_bloat.csv", ".csv"),
      SectionFile("pg_squeeze Activity", "pg_squeeze.csv", ".csv"),
      SectionFile("pg_cron Schedule", "cron_schedule.csv", ".csv"),
      SectionFile("Replication Lag", "replication_lag.csv", ".csv"),
      SectionFile("Role Audit", "role_audit.csv", ".csv"),
      SectionFile("Extension Audit", "extension_audit.csv", ".csv"),
      SectionFile("Security Audit", "security_audit.txt", ".txt"),
      SectionFile("pg_stat_statements Snapshot", "pg_stat_statements.csv", ".csv"),
      SectionFile("Buffer Cache Snapshot", "pg_buffercache.csv", ".csv"),
      SectionFile("Schema Snapshot", "schema_snapshot.csv", ".csv"),
      SectionFile("pgAudit Summary", "pgaudit_summary.csv", ".csv")>>

\* html.escape(s): the five characters it replaces
RECURSIVE html_escape(_)
html_escape(s) ==
    IF s = <<>>
    THEN <<>>
    ELSE (CASE s[1] = "&" -> <<"&", "a", "m", "p", ";">>
            [] s[1] = "<" -> <<"&", "l", "t", ";">>
            [] s[1] = ">" -> <<"&", "g", "t", ";">>
            [] s[1] = "\"" -> <<"&", "q", "u", "o", "t", ";">>
            [] s[1] = "'" -> <<"&", "#", "x", "2", "7", ";">>
            [] OTHER -> <<s[1]>>) \o html_escape(Tail(s))

\* the row csv.DictReader makes of a record: dict(zip(fieldnames, record)),
\* None for the fieldnames the record is too short for, and the fields
\* beyond the fieldnames under the key None
DictRow(fieldnames, record) ==
    LET names == {fieldnames[k] : k \in 1..Len(fieldnames)}
        last(h) == CHOOSE k \in 1..Len(fieldnames) :
                       /\ fieldnames[k] = h
                       /\ \A j \in 1..Len(fieldnames) : fieldnames[j] = h => j <= k
    IN  [h \in names \cup (IF Len(record) > Len(fieldnames) THEN {None} ELSE {}) |->
            IF h = None
            THEN SubSeq(record, Len(fieldnames) + 1, Len(record))
            ELSE IF last(h) <= Len(record) THEN record[last(h)] ELSE None]

\* lines 39-42: the loop over the rows of the reader
RECURSIVE preview_of(_, _, _)
preview_of(reader, limit, preview) ==
    IF reader = <<>>
    THEN preview
    ELSE preview_of(Tail(reader), limit,
                    IF Len(preview) < limit THEN Append(preview, Head(reader)) ELSE preview)

\* load_csv(path, limit), lines 31-43.  reader.fieldnames is None for a file
\* without a line and the first record otherwise, the empty list for a
\* blank first line; the reader skips the blank lines behind it.
load_csv(file, limit) ==
    LET fieldnames == IF file = <<>> THEN <<>> ELSE Head(file)
        records == IF file = <<>> THEN <<>> ELSE SelectSeq(Tail(file), LAMBDA r : r # <<>>)
        reader == [k \in 1..Len(records) |-> DictRow(fieldnames, records[k])]
    IN  [headers |-> fieldnames,
         rows |-> preview_of(reader, limit, <<>>),
         total |-> Len(records)]

NoRows == <<"N", "o", " ", "r", "o", "w", "s">>

\* render_table(headers, rows), lines 46-66, rows being the preview: the paragraph of line 48, or
\* the table with its head cells and its body rows; a body row is the
\* placeholder of line 54 or the cells of a row of data
render_table(headers, preview) ==
    IF headers = <<>>
    THEN [kind |-> "p", head |-> <<>>, body |-> <<>>]
    ELSE [kind |-> "table",
          head |-> [k \in 1..Len(headers) |-> html_escape(headers[k])],
          body |-> IF preview = <<>>
                   THEN <<[data |-> FALSE,
                           colspan |-> IF Len(headers) > 1 THEN Len(headers) ELSE 1,
                           cells |-> <<NoRows>>]>>
                   ELSE [k \in 1..Len(preview) |->
                            [data |-> TRUE,
                             colspan |-> 0,
                             cells |-> [j \in 1..Len(headers) |->
                                 LET got == IF headers[j] \in DOMAIN preview[k]
                                            THEN preview[k][headers[j]]
                                            ELSE <<>>
                                 IN  html_escape(IF got = None THEN <<>> ELSE got)]]]]

\* the character U+2026 that line 74 appends
Ellipsis == "U+2026"

\* the default of render_text's limit, line 69
TextLimit == 2000

\* render_text(path, limit), lines 69-75
render_text(text, limit) ==
    html_escape(SubSeq(text, 1, IF Len(text) < limit THEN Len(text) ELSE limit))
        \o (IF Len(text) > limit THEN <<"\n", Ellipsis>> ELSE <<>>)

\* min(a, b)
min(a, b) == IF b < a THEN b ELSE a

\* lines 95-102: the section of a CSV file
csv_section(title, file, rows_arg) ==
    LET loaded == load_csv(file, rows_arg)
    IN  [kind |-> "csv",
         title |-> title,
         shown |-> min(Len(loaded.rows), rows_arg),
         total |-> loaded.total,
         content |-> render_table(loaded.headers, loaded.rows)]

\* lines 92-93: the section of a text file
text_section(title, text) ==
    [kind |-> "text", title |-> title, shown |-> 0, total |-> 0,
     content |-> render_text(text, TextLimit)]

\* lines 106-108 and line 111
BadgerSection ==
    [kind |-> "pgbadger", title |-> "pgBadger Report", shown |-> 0, total |-> 0,
     content |-> <<>>]
NoReports ==
    [kind |-> "none", title |-> "", shown |-> 0, total |-> 0, content |-> <<>>]

\* path.exists() for a name in --input
exists(name) == name \in DOMAIN g_dir

\* the most records behind the header line of a CSV file
MaxRecords == 2

\* the header lines (none, one column, two columns, a blank line) and the
\* records (a blank line, one field, two fields with a character that
\* html.escape replaces, three fields)
HeaderLines == {<<>>, << <<"a">> >>, << <<"a">>, <<"b">> >>}
Records == {<<>>, << <<"1">> >>, << <<"<">>, <<"2">> >>, << <<"1">>, <<"2">>, <<"3">> >>}

RECURSIVE RecordSeqs(_)
RecordSeqs(n) ==
    IF n = 0
    THEN {<<>>}
    ELSE LET shorter == RecordSeqs(n - 1)
         IN  shorter \cup {Append(s, r) : s \in {t \in shorter : Len(t) = n - 1}, r \in Records}

CsvFiles ==
    {<<>>} \cup {<<h>> \o d : h \in HeaderLines, d \in RecordSeqs(MaxRecords)}

TextFiles == {<<>>, <<"a", "<">>}

\* the default of --rows, line 82
DefaultRows == 10

\* --rows: type=int takes every integer
RowsChoices == {-1, 0, 1, 2, DefaultRows}

\* a file that is there or not: no element or one
Maybe(files) == {<<>>} \cup {<<f>> : f \in files}

\* the directories: the first CSV file of SECTION_FILES, the text file, a
\* CSV file behind it and pgbadger.html, each there or not
ReportDirs ==
    {[name \in {n \in {"autovacuum_findings.csv", "security_audit.txt",
                       "pg_buffercache.csv", "pgbadger.html"} :
                   CASE n = "autovacuum_findings.csv" -> first # <<>>
                     [] n = "security_audit.txt" -> text # <<>>
                     [] n = "pg_buffercache.csv" -> second # <<>>
                     [] n = "pgbadger.html" -> badger # <<>>} |->
         CASE name = "autovacuum_findings.csv" -> first[1]
           [] name = "security_audit.txt" -> text[1]
           [] name = "pg_buffercache.csv" -> second[1]
           [] name = "pgbadger.html" -> badger[1]] :
        first \in Maybe(CsvFiles),
        text \in Maybe(TextFiles),
        second \in Maybe({<< << <<"a">> >>, << <<"1">> >> >>}),
        badger \in Maybe({<<>>})}

InitReport ==
    /\ IdleNorm
    /\ IdleCmp
    /\ IdleFetch
    /\ IdleRun
    /\ IdleEnv
    /\ IdleFloat
    /\ IdleDiff
    /\ g_dir \in ReportDirs
    /\ g_rows \in RowsChoices
    /\ g_idx = 1
    /\ g_sections = <<>>
    /\ g_out = <<>>
    /\ g_pc = "loop"

\* one iteration of the loop of lines 87-102
ReportSection ==
    /\ g_pc = "loop"
    /\ g_idx <= Len(SECTION_FILES)
    /\ g_idx' = g_idx + 1
    /\ LET entry == SECTION_FILES[g_idx]
       IN  g_sections' =
               IF ~exists(entry.filename)
               THEN g_sections
               ELSE IF entry.suffix = ".txt"
                    THEN Append(g_sections, text_section(entry.title, g_dir[entry.filename]))
                    ELSE Append(g_sections,
                                csv_section(entry.title, g_dir[entry.filename], g_rows))
    /\ UNCHANGED <<g_dir, g_rows, g_out, g_pc,
                   normVars, cmpVars, fetchVars, runVars, envVars, floatVars, diffVars>>

\* lines 104-135: the pgBadger section, the paragraph of a report without
\* sections, and the report is written
ReportWrite ==
    /\ g_pc = "loop"
    /\ g_idx > Len(SECTION_FILES)
    /\ g_pc' = "done"
    /\ LET with_badger == IF exists("pgbadger.html")
                          THEN Append(g_sections, BadgerSection)
                          ELSE g_sections
       IN  /\ g_sections' = IF with_badger = <<>> THEN <<NoReports>> ELSE with_badger
           /\ g_out' = g_sections'
    /\ UNCHANGED <<g_dir, g_rows, g_idx,
                   normVars, cmpVars, fetchVars, runVars, envVars, floatVars, diffVars>>

NextReport == ReportSection \/ ReportWrite

SpecReport == InitReport /\ [][NextReport]_vars

---------------------------------------------------------------------------
(* Claims about normalize_version, checked under SpecNorm.                 *)

OrNone(s) == IF s = <<>> THEN None ELSE s

\* s begins with REL_/REL-/VER_/VER- in any letter case
HasMarker(s) ==
    /\ Len(s) >= 4
    /\ s[2] \in {"E", "e"}
    /\ \/ s[1] \in {"R", "r"} /\ s[3] \in {"L", "l"}
       \/ s[1] \in {"V", "v"} /\ s[3] \in {"R", "r"}
    /\ s[4] \in {"_", "-"}

\* neither a marker nor a v/V leads s
NothingToStrip(s) == ~HasMarker(s) /\ (s = <<>> \/ s[1] \notin {"v", "V"})

\* the tag once both marker substitutions have run (lines 133-135)
AfterMarkers(tag) ==
    sub_marker(<<"V", "E", "R">>, sub_marker(<<"R", "E", "L">>, strip(tag)))

\* how many v/V characters lead s
LeadingVs(s) ==
    CHOOSE k \in 0..Len(s) :
        /\ \A j \in 1..k : s[j] \in {"v", "V"}
        /\ k = Len(s) \/ s[k + 1] \notin {"v", "V"}

\* C7: for a non-empty tag and no pattern the result is the tag with a
\* leading REL_/REL-/VER_/VER- marker (any letter case) removed, underscores
\* replaced by periods and surrounding whitespace trimmed, or absent when
\* nothing remains; it holds no underscore, no surrounding whitespace and is
\* never the empty string; REL_3_4_1 gives 3.4.1 and v2.0.0 gives 2.0.0.
C7_NormalizeNoPattern ==
    (n_pc = "done" /\ n_tag # <<>> /\ FalsyName(n_pattern)) =>
        /\ n_out # None =>
              /\ n_out # <<>>
              /\ \A k \in 1..Len(n_out) : n_out[k] # "_"
              /\ n_out[1] \notin Whitespace
              /\ n_out[Len(n_out)] \notin Whitespace
        /\ n_tag = Tag_REL_3_4_1 => n_out = Ver_3_4_1
        /\ n_tag = Tag_v2_0_0 => n_out = Ver_2_0_0
        /\ LET s == strip(n_tag)
               r == IF HasMarker(s) THEN Drop(s, 5) ELSE s
           IN  NothingToStrip(r) => n_out = OrNone(strip(replace_underscore(r)))

C7_Witness ==
    /\ n_pc = "done"
    /\ n_tag = Tag_REL_3_4_1
    /\ n_pattern = NoName
    /\ n_out = Ver_3_4_1

\* C8 as stated: after marker removal exactly one leading v or V is
\* stripped and no more, so that a tag beginning with several v/V
\* characters loses only the first of them.
C8_SingleLeadingV ==
    (n_pc = "done" /\ n_tag # <<>> /\ FalsyName(n_pattern)) =>
        LET r == AfterMarkers(n_tag)
            t == IF r # <<>> /\ r[1] \in {"v", "V"} THEN Tail(r) ELSE r
        IN  n_out = OrNone(strip(replace_underscore(t)))

\* C8 amended: after marker removal the whole leading run of v/V
\* characters is stripped: a tag beginning with several v/V characters
\* loses all of them.
C8_EveryLeadingV ==
    (n_pc = "done" /\ n_tag # <<>> /\ FalsyName(n_pattern)) =>
        LET r == AfterMarkers(n_tag)
            t == Drop(r, LeadingVs(r) + 1)
        IN  n_out = OrNone(strip(replace_underscore(t)))

C8_Witness ==
    /\ n_pc = "done"
    /\ n_tag = <<"v", "V", "1">>
    /\ n_pattern = NoName
    /\ n_out = <<"1">>

\* v, e, r under the pattern's letter-case rule
IsVer(pattern, a, b, c) ==
    IF pattern = PatRepack
    THEN a \in {"v", "V"} /\ b \in {"e", "E"} /\ c \in {"r", "R"}
    ELSE <<a, b, c>> = <<"v", "e", "r">>

\* the text the pattern captures in a tag that holds a character of
\* [0-9_.]: the run of such characters at the first of them, unless that
\* first one is the underscore of a ver_ prefix with more of the run behind
CapturedGroup(pattern, tag) ==
    LET q == CHOOSE k \in 1..Len(tag) :
                 tag[k] \in PatClass /\ \A j \in 1..(k - 1) : tag[j] \notin PatClass
        from == IF /\ tag[q] = "_"
                   /\ q >= 4
                   /\ IsVer(pattern, tag[q - 3], tag[q - 2], tag[q - 1])
                   /\ q + 1 <= Len(tag)
                   /\ tag[q + 1] \in PatClass
                THEN q + 1
                ELSE q
        to == CHOOSE e \in from..Len(tag) :
                  /\ \A j \in from..e : tag[j] \in PatClass
                  /\ e = Len(tag) \/ tag[e + 1] \notin PatClass
    IN  SubSeq(tag, from, to)

\* C9: an empty tag gives absent; with a pattern, normalization continues
\* with the captured group when the pattern matches the tag and gives
\* absent when it does not; ver-1.2 with (?:ver[_-])?([0-9_.]+) gives 1.2.
C9_EmptyAndPattern ==
    n_pc = "done" =>
        /\ n_tag = <<>> => n_out = None
        /\ (n_tag # <<>> /\ ~FalsyName(n_pattern)) =>
              IF \E k \in 1..Len(n_tag) : n_tag[k] \in PatClass
              THEN n_out = normalize_version(CapturedGroup(n_pattern, n_tag), NoName)
              ELSE n_out = None
        /\ (n_tag = Tag_ver_1_2 /\ n_pattern = PatPlain) => n_out = Ver_1_2

C9_Witness ==
    /\ n_pc = "done"
    /\ n_tag = Tag_ver_1_2
    /\ n_pattern = PatPlain
    /\ n_out = Ver_1_2

\* C28: normalize_version without a pattern is idempotent: applied to any
\* of its own results that is not absent, it returns that result unchanged.
C28_NormalizeIdempotent ==
    (n_pc = "twice" /\ FalsyName(n_pattern)) => n_again = n_out

---------------------------------------------------------------------------
(* Claims about compare_versions, checked under SpecCmp.                   *)

\* C4: not_installed whenever installed is absent (None or empty), whatever
\* latest is, also when latest is absent too; unknown whenever installed is
\* present and latest is absent.
C4_AbsentArguments ==
    c_pc = "done" =>
        /\ c_installed \in {None, <<>>} => c_out = "not_installed"
        /\ (c_installed \notin {None, <<>>} /\ c_latest \in {None, <<>>}) =>
              c_out = "unknown"

C4_Witness ==
    /\ c_pc = "done"
    /\ c_installed = None
    /\ c_latest = None
    /\ c_out = "not_installed"

\* a sequence of integers with zeros behind it up to length n
ZeroPadded(a, n) == [k \in 1..n |-> IF k <= Len(a) THEN a[k] ELSE 0]

\* a < b component by component, missing trailing components counting as 0
PaddedLess(a, b) ==
    LET n == IF Len(a) > Len(b) THEN Len(a) ELSE Len(b)
        pa == ZeroPadded(a, n)
        pb == ZeroPadded(b, n)
    IN  \E k \in 1..n : pa[k] < pb[k] /\ \A j \in 1..(k - 1) : pa[j] = pb[j]

BothPresent == c_installed \notin {None, <<>>} /\ c_latest \notin {None, <<>>}

\* C5: for two present version strings (each holding a digit run) the
\* result is outdated exactly when the digit runs of installed are smaller
\* than those of latest, compared as integers component by component with
\* missing trailing components counting as 0, and current otherwise, on
\* whichever comparison path.
C5_PaddedNumericOrder ==
    (c_pc = "done" /\ BothPresent /\ split(c_installed) # <<>> /\ split(c_latest) # <<>>) =>
        c_out = IF PaddedLess(split(c_installed), split(c_latest))
                THEN "outdated"
                ELSE "current"

\* C6: when both are present and one of them holds no digit run, the
\* result is unknown, never outdated or current.
C6_UnparsableIsUnknown ==
    (c_pc = "done" /\ BothPresent /\ (split(c_installed) = <<>> \/ split(c_latest) = <<>>)) =>
        c_out = "unknown"

---------------------------------------------------------------------------
(* Claims about fetch_github_latest, checked under SpecFetch.              *)

\* the lookup failed: the request or the parse failed, the payload is no
\* JSON object, or what it holds for the tag is no string
LookupFailed(response) ==
    \/ response.kind \in CaughtKinds \cup {"not_object"}
    \/ response.tag_name = NotAStr
    \/ Falsy(response.tag_name) /\ response.name = NotAStr

\* C2: every failure of the upstream lookup (network error, non-2xx
\* response, timeout, malformed payload of any shape) makes
\* fetch_github_latest return None; no exception escapes from it.
C2_FailureReturnsNone ==
    (f_pc = "done" /\ LookupFailed(f_response)) => f_out = Returned(None)

---------------------------------------------------------------------------
(* Claims about resolve_latest and main, checked under SpecRun.            *)

\* where the aliases lead from a component name: to a component that is
\* no alias ("component", with its cfg), to a name that is no component
\* ("missing"), or around a cycle ("cycle")
RECURSIVE ChainEnd(_, _)
ChainEnd(name, fuel) ==
    LET looked == CONFIG_get(name)
    IN  IF ~looked.found
        THEN [ends |-> "missing", cfg |-> <<>>]
        ELSE IF looked.cfg.source = "alias" /\ ~FalsyName(looked.cfg.alias)
             THEN IF fuel = 0
                  THEN [ends |-> "cycle", cfg |-> <<>>]
                  ELSE ChainEnd(looked.cfg.alias, fuel - 1)
             ELSE [ends |-> "component", cfg |-> looked.cfg]

EndOf(cfg) == ChainEnd(cfg.name, Len(CONFIG))

IsAlias(cfg) == cfg.source = "alias" /\ ~FalsyName(cfg.alias)

NoAliasCycle == \A k \in 1..Len(CONFIG) : EndOf(CONFIG[k]).ends # "cycle"

\* C1: for any installed versions, server version and upstream outcomes
\* (tag returned, lookup failed, pattern not matched) the loop of main
\* produces exactly one row per catalog entry, in the catalog's order,
\* never fewer: the run is not cut short, and once the loop is over every
\* entry has its row.
C1_OneRowPerEntry ==
    NoAliasCycle =>
        /\ pc # "crashed"
        /\ Len(rows) = idx - 1
        /\ \A k \in 1..Len(rows) : rows[k].component = CONFIG[k].name
        /\ pc = "done" => Len(rows) = Len(CONFIG)

\* the repositories whose answer differs between the two runs
ChangedRepos == {r \in DOMAIN upstream : upstream[r] # prev_upstream[r]}

\* the row of cfg depends on the lookup of repo: cfg is resolved (it is
\* not core), nothing seeds the cache for its chain's end, and that end is
\* the github component of this repo
DependsOn(cfg, repo) ==
    /\ cfg.kind # "core"
    /\ EndOf(cfg).ends = "component"
    /\ EndOf(cfg).cfg.name \notin DOMAIN fresh_cache
    /\ EndOf(cfg).cfg.source = "github"
    /\ EndOf(cfg).cfg.repo = repo

\* C3: when the lookup fails for one github component, the run still
\* completes, the rows of that component and of the components aliased to
\* it have an empty latest_version, and every other row is the one of the
\* run in which the lookup succeeded.
C3_FailureStaysLocal ==
    (invocation = "second" /\ ChangedRepos # {} /\ NoAliasCycle) =>
        /\ pc # "crashed"
        /\ pc = "done" =>
              \A k \in 1..Len(CONFIG) :
                  IF \E r \in ChangedRepos : DependsOn(CONFIG[k], r)
                  THEN /\ rows[k].latest_version = <<>>
                       /\ rows[k].component = prev_rows[k].component
                       /\ rows[k].installed_version = prev_rows[k].installed_version
                       /\ rows[k].source = prev_rows[k].source
                  ELSE rows[k] = prev_rows[k]

\* resolving the component cfg directly, in the cache a run starts with
Direct(cfg) == resolve_latest(cfg.name, fresh_cache, <<>>, 1)

\* C10: for an alias whose chain ends in a component that is no alias,
\* resolve_latest terminates (the nesting limit is not hit) and gives what
\* resolving that component directly gives, whichever member of the chain
\* the loop meets first: the same value in the cache and in the row, or
\* the same exception.
C10_AliasChainAsDirect ==
    \A k \in 1..Len(CONFIG) :
        LET cfg == CONFIG[k]
            direct == Direct(EndOf(cfg).cfg)
        IN  (IsAlias(cfg) /\ cfg.kind # "core" /\ EndOf(cfg).ends = "component") =>
                /\ cfg.name \in DOMAIN cache =>
                      direct.exc = "" /\ cache[cfg.name] = direct.val
                /\ k <= Len(rows) => rows[k].latest_version = OrEmpty(direct.val)
                /\ (pc = "crashed" /\ idx = k) =>
                      exc # "RecursionError" /\ exc = direct.exc
                /\ (pc = "loop" /\ idx > k) => k <= Len(rows)

C10_Witness ==
    /\ pc = "done"
    /\ Len(CONFIG) = MaxChain + 1
    /\ CONFIG[1].name = ChainNames[MaxChain]
    /\ CONFIG[Len(CONFIG)].name = "tracked"
    /\ cache[ChainNames[MaxChain]] = Ver_3_4_1
    /\ rows[1].latest_version = Ver_3_4_1
    /\ fetched = <<"org/tracked">>

\* C11: resolve_latest terminates for any alias graph, cycles included: no
\* run ends in the nesting limit, and a component whose aliases lead around
\* a cycle is treated as unresolved, its row has an empty latest_version.
C11_CycleResolvesAbsent ==
    /\ exc # "RecursionError"
    /\ \A k \in 1..Len(CONFIG) :
           (EndOf(CONFIG[k]).ends = "cycle" /\ CONFIG[k].kind # "core") =>
               /\ (pc = "loop" /\ idx > k) => k <= Len(rows)
               /\ k <= Len(rows) => rows[k].latest_version = <<>>

\* how often fetch_github_latest was called with repo in this run
FetchCount(repo) == Cardinality({k \in 1..Len(fetched) : fetched[k] = repo})

\* C12: within one run the upstream lookup is made at most once per github
\* component, however many aliases resolve through it and also when the
\* lookup failed or the pattern did not match: the absence is in the cache
\* like a value.
C12_OneLookupPerComponent ==
    /\ \A r \in DOMAIN upstream : FetchCount(r) <= 1
    /\ \A k \in 1..Len(CONFIG) :
           LET cfg == CONFIG[k]
           IN  (cfg.source = "github" /\ ~FalsyName(cfg.repo) /\ cfg.name \in DOMAIN cache
                   /\ cfg.name \notin DOMAIN fresh_cache) =>
                   FetchCount(cfg.repo) = 1

\* the lookup for the tracked component timed out, and the run went through
\* every alias of the chain with that one lookup
C12_Witness ==
    /\ pc = "done"
    /\ Len(CONFIG) = MaxChain + 1
    /\ CONFIG[1].name = "tracked"
    /\ upstream["org/tracked"] = NoPayload("timeout")
    /\ cache["tracked"] = None
    /\ fetched = <<"org/tracked">>
    /\ \A k \in 1..Len(rows) : rows[k].latest_version = <<>>

\* C13: the iteration of main for a component of kind core appends a row
\* whose latest_version is the server version as it was read, not
\* normalised, and makes no upstream lookup and no alias walk: the log of
\* fetches and the cache are as before.
C13_CoreLatestIsServerVersion ==
    [][(pc = "loop" /\ idx <= Len(CONFIG) /\ CONFIG[idx].kind = "core") =>
           /\ pc' = "loop"
           /\ Len(rows') = Len(rows) + 1
           /\ rows'[Len(rows')].component = CONFIG[idx].name
           /\ rows'[Len(rows')].latest_version = server_version
           /\ fetched' = fetched
           /\ cache' = cache]_vars

\* a run over a server version with a leading v, which normalisation would
\* strip, has given pgcrypto its row
C13_Witness ==
    /\ pc = "done"
    /\ server_version = <<"v">> \o Ver_16_2
    /\ \E k \in 1..Len(rows) :
           /\ CONFIG[k].kind = "core"
           /\ rows[k].component = "pgcrypto"
           /\ rows[k].latest_version = <<"v">> \o Ver_16_2
    /\ "pgcrypto" \notin DOMAIN cache

\* C14: the installed_version of a component of kind core mirrors the
\* server's version, so that the row of an installed core component has
\* installed_version equal to latest_version.
C14_CoreInstalledMirrorsServer ==
    \A k \in 1..Len(rows) :
        (CONFIG[k].kind = "core" /\ CONFIG[k].name \in DOMAIN installed_exts) =>
            /\ rows[k].installed_version = server_version
            /\ rows[k].installed_version = rows[k].latest_version

\* C15: the installed_version of a row is the server's version when the
\* component is of kind server; otherwise it is what the installed mapping
\* holds for the component's name when the name is a key of it, and empty
\* when it is not.
C15_InstalledVersionSource ==
    \A k \in 1..Len(rows) :
        rows[k].installed_version =
            IF CONFIG[k].kind = "server"
            THEN server_version
            ELSE IF CONFIG[k].name \in DOMAIN installed_exts
                 THEN installed_exts[CONFIG[k].name]
                 ELSE <<>>

\* a finished run whose rows show the three cases: the server, an installed
\* extension and one that is not installed
C15_Witness ==
    /\ pc = "done"
    /\ CONFIG = CatalogShapes
    /\ installed_exts = "postgis" :> Ver_3_3_0
    /\ rows[1].installed_version = server_version
    /\ rows[2].installed_version = Ver_3_3_0
    /\ rows[4].installed_version = <<>>

\* component, installed_version, latest_version and status of a row
Shown(row) ==
    <<row.component, row.installed_version, row.latest_version, row.status>>

\* the inputs of the end-to-end scenario
ScenarioInputs ==
    /\ CONFIG = CatalogScenario
    /\ server_version = Ver_16_2
    /\ installed_exts = "postgis" :> Ver_3_3_0
    /\ upstream["postgis/postgis"] = Payload(Ver_3_4_1, None)

\* C16: with the catalog postgresql (server), postgis (github
\* postgis/postgis), postgis_raster (alias of postgis), server version 16.2,
\* the lookup for postgis/postgis returning 3.4.1 and postgis installed at
\* 3.3.0, the rows are exactly, in order: postgresql 16.2 16.2 current;
\* postgis 3.3.0 3.4.1 outdated; postgis_raster "" 3.4.1 not_installed.
C16_ScenarioRows ==
    (ScenarioInputs /\ pc = "done") =>
        /\ Len(rows) = 3
        /\ Shown(rows[1]) = <<"postgresql", Ver_16_2, Ver_16_2, "current">>
        /\ Shown(rows[2]) = <<"postgis", Ver_3_3_0, Ver_3_4_1, "outdated">>
        /\ Shown(rows[3]) = <<"postgis_raster", <<>>, Ver_3_4_1, "not_installed">>

C16_Witness ==
    /\ ScenarioInputs
    /\ pc = "done"
    /\ invocation = "first"
    /\ Len(rows) = 3
    /\ rows[3].status = "not_installed"
    /\ fetched = <<"postgis/postgis">>

\* cfg breaks the catalog's rules: its alias names no component, or it is
\* of source github and has no repo
Misconfigured(cfg) ==
    \/ IsAlias(cfg) /\ ~CONFIG_get(cfg.alias).found
    \/ cfg.source = "github" /\ FalsyName(cfg.repo)

\* C17 as stated: a catalog in which an alias names a component that does
\* not exist, or a github component has no repo, makes the run abort at
\* once with a configuration error instead of producing a row for that
\* component: no such component has a row and no such run returns.
C17_MisconfigurationAborts ==
    /\ \A k \in 1..Len(rows) : ~Misconfigured(CONFIG[k])
    /\ pc = "done" => \A k \in 1..Len(CONFIG) : ~Misconfigured(CONFIG[k])

\* C17 amended: such a catalog does not abort the run.  The iteration for
\* the component raises nothing; it enters None into the cache for it and
\* appends a row with an empty latest_version, of status unknown when the
\* component is installed and not_installed when it is not, and the loop
\* goes on.
C17_MisconfigurationGivesEmptyRow ==
    \A k \in 1..Len(CONFIG) :
        (Misconfigured(CONFIG[k]) /\ CONFIG[k].kind # "core") =>
            /\ pc = "crashed" => idx # k
            /\ (pc = "loop" /\ idx > k) => k <= Len(rows)
            /\ k <= Len(rows) =>
                  /\ rows[k].component = CONFIG[k].name
                  /\ rows[k].latest_version = <<>>
                  /\ rows[k].status =
                        IF Falsy(installed_get(CONFIG[k].name))
                        THEN "not_installed" ELSE "unknown"
                  /\ cache[CONFIG[k].name] = None

\* a run over the catalog with a dangling alias and a github component
\* without repo has returned, with a row for each of the two
C17_Witness ==
    /\ pc = "done"
    /\ CONFIG = CatalogDangling
    /\ Len(rows) = Len(CONFIG)
    /\ Misconfigured(CONFIG[2]) /\ rows[2].component = "ghost"
    /\ Misconfigured(CONFIG[3]) /\ rows[3].component = "norepo"
    /\ rows[2].status = "unknown"
    /\ rows[3].latest_version = <<>>

\* the components whose resolution needs a lookup of its own in a run that
\* starts from a fresh cache: github with a repo and not seeded
LooksUp(cfg) ==
    /\ cfg.source = "github"
    /\ ~FalsyName(cfg.repo)
    /\ cfg.kind # "core"
    /\ cfg.name \notin DOMAIN fresh_cache

\* C18: two runs with identical catalog, installed versions, server version
\* and upstream answers give identical rows, and the second run uses no
\* cache entry left by the first: it starts from the cache that holds the
\* server's version alone and makes every lookup itself.
C18_RunsAreIndependent ==
    (invocation = "second" /\ upstream = prev_upstream) =>
        /\ (pc = "loop" /\ idx = 1) => cache = fresh_cache
        /\ \A k \in 1..Len(rows) :
               /\ rows[k] = prev_rows[k]
               /\ LooksUp(CONFIG[k]) => FetchCount(CONFIG[k].repo) = 1
        /\ pc = "done" => rows = prev_rows

\* the second run of the scenario has returned the rows of the first after
\* a lookup of its own
C18_Witness ==
    /\ invocation = "second"
    /\ upstream = prev_upstream
    /\ pc = "done"
    /\ CONFIG = CatalogScenario
    /\ rows = prev_rows
    /\ Len(rows) = 3
    /\ rows[2].latest_version = Ver_3_4_1
    /\ fetched = <<"postgis/postgis">>

\* cfg sets the fields its source asks for and no other: an alias exactly
\* when it is of source alias, a repo exactly when it is of source github
\* (as every entry of CONFIG does)
FieldsFollowSource(cfg) ==
    /\ cfg.source = "alias" <=> ~FalsyName(cfg.alias)
    /\ cfg.source = "github" <=> ~FalsyName(cfg.repo)

C27_ServerRowNeverOutdated ==
    /\ \A k \in 1..Len(rows) :
           (CONFIG[k].name = "postgresql" /\ CONFIG[k].kind = "server") =>
               /\ rows[k].status # "outdated"
               /\ rows[k].latest_version = OrEmpty(normalize_version(server_version, NoName))
               /\ rows[k].latest_version = OrEmpty(fresh_cache["postgresql"])
    /\ (\E k \in 1..Len(CONFIG) : CONFIG[k].name = "postgresql") =>
           FetchCount("postgres/postgres") = 0

\* a finished run whose release API has a release of postgres/postgres
\* that sorts after the server's version, over a server version that
\* normalisation changes; the run made its lookups for the other components
C27_Witness ==
    /\ pc = "done"
    /\ CONFIG = CatalogShapes
    /\ server_version = <<"v">> \o Ver_16_2
    /\ upstream["postgres/postgres"] = Payload(Ver_17_0, None)
    /\ rows[1].component = "postgresql"
    /\ rows[1].latest_version = Ver_16_2
    /\ rows[1].status = "current"
    /\ Len(fetched) > 0

---------------------------------------------------------------------------
(* Claims about update_env_var, checked under SpecEnv.                     *)

\* the lines of a text: what stands between its "\n" characters, the one
\* that ends the text opening no further line
RECURSIVE LinesOf(_)
LinesOf(text) ==
    IF text = <<>>
    THEN <<>>
    ELSE LET ends == {k \in 1..Len(text) : text[k] = "\n"}
         IN  IF ends = {}
             THEN <<text>>
             ELSE LET k == CHOOSE e \in ends : \A other \in ends : e <= other
                  IN  <<SubSeq(text, 1, k - 1)>> \o LinesOf(Drop(text, k + 1))

\* the lines of the file before and after the call
LinesBefore == LinesOf(read_text(u_file))
LinesAfter == LinesOf(read_text(u_out))

BeginsWithKey(line) == startswith(line, u_key \o <<"=">>)

\* C20: after update_env_var(file, key, value) on an existing file, every
\* line that began with key= reads key=value, exactly one line key=value is
\* appended at the end if no line began with key=, and every other line
\* (the lines of keys that share a prefix with key among them) is unchanged
\* and in its place.
C20_UpdateKeepsOtherLines ==
    (u_pc = "done" /\ u_file # NoFile) =>
        LET found == \E k \in 1..Len(LinesBefore) : BeginsWithKey(LinesBefore[k])
        IN  /\ Len(LinesAfter) = Len(LinesBefore) + (IF found THEN 0 ELSE 1)
            /\ \A k \in 1..Len(LinesBefore) :
                   LinesAfter[k] = IF BeginsWithKey(LinesBefore[k])
                                   THEN assignment(u_key, u_value)
                                   ELSE LinesBefore[k]
            /\ ~found => LinesAfter[Len(LinesAfter)] = assignment(u_key, u_value)

\* C26: when the target file does not exist, update_env_var raises
\* FileNotFoundError without creating the file and main returns 1; when main
\* is called with any number of arguments other than file, key and value it
\* returns 1 without reading or writing any file.
C26_MissingFileAndUsage ==
    /\ (u_pc \in {"done", "returned"} /\ u_file = NoFile /\ u_io # <<>>) =>
           /\ u_exc = "FileNotFoundError"
           /\ u_out = NoFile
           /\ \A k \in 1..Len(u_io) : u_io[k] # "write_text"
           /\ u_pc = "returned" => u_ret = 1
    /\ (u_pc = "returned" /\ Len(u_argv) # 4) =>
           /\ u_ret = 1
           /\ u_io = <<>>
           /\ u_out = u_file

\* main has returned from a command line of five arguments, and from one of
\* three arguments naming a file that does not exist
C26_Witness ==
    /\ u_pc = "returned"
    /\ u_ret = 1
    /\ \/ Len(u_argv) = 5 /\ u_file # NoFile
       \/ Len(u_argv) = 4 /\ u_file = NoFile /\ u_exc = "FileNotFoundError"

\* C29: update_env_var is idempotent: for every existing file, key and
\* value, a second call with the same key and value leaves the file exactly
\* as the first call left it.
C29_UpdateIdempotent ==
    (u_pc = "twice" /\ u_file # NoFile) => u_again = u_out

---------------------------------------------------------------------------
(* Claims about compare_float, checked under SpecFloat.                    *)

IsFlag(arg) == \E name \in FlagNames : arg = Flag(name)

\* the arguments of the command line that are no flags: lhs and rhs
Operands == SelectSeq(cf_argv, LAMBDA arg : ~IsFlag(arg))

\* the names of the flags given
FlagsGiven == {name \in FlagNames : \E k \in 1..Len(cf_argv) : cf_argv[k] = Flag(name)}

\* the relation selected: that of the flag, le when there is none
Selected == IF FlagsGiven = {} THEN <<"l", "e">> ELSE CHOOSE name \in FlagsGiven : TRUE

\* the relation of that name holds between the numbers a and b
Holds(name, a, b) ==
    CASE name = <<"l", "t">> -> FloatLess(a, b)
      [] name = <<"l", "e">> -> ~FloatLess(b, a) /\ a.kind # "nan" /\ b.kind # "nan"
      [] name = <<"g", "t">> -> FloatLess(b, a)
      [] name = <<"g", "e">> -> ~FloatLess(a, b) /\ a.kind # "nan" /\ b.kind # "nan"

\* a command line with lhs and rhs and at most one relation
TwoOperands == Len(Operands) = 2 /\ Cardinality(FlagsGiven) <= 1

\* C21: main returns 0 when the selected relation (--lt, --le, --gt or
\* --ge; --le when no flag is given) holds between lhs and rhs, 1 when it
\* does not, and 2 exactly when lhs or rhs cannot be parsed as a number,
\* whichever relation is selected.
C21_ExitCodeOfRelation ==
    (cf_pc = "done" /\ TwoOperands) =>
        LET lhs == float(Operands[1])
            rhs == float(Operands[2])
        IN  cf_out = IF ~lhs.ok \/ ~rhs.ok
                     THEN Returned2(2)
                     ELSE IF Holds(Selected, lhs, rhs)
                          THEN Returned2(0)
                          ELSE Returned2(1)

---------------------------------------------------------------------------
(* Claims about the two branches of compare_versions, checked under        *)
(* SpecCmp.                                                                *)

\* digits and single periods between them: N(.N)*
DottedNumeric(s) ==
    /\ s # <<>>
    /\ \A k \in 1..Len(s) : s[k] \in Digits \cup {"."}
    /\ s[1] \in Digits
    /\ s[Len(s)] \in Digits
    /\ \A k \in 1..(Len(s) - 1) : ~(s[k] = "." /\ s[k + 1] = ".")

\* what lines 155-163 return when they are reached
FallbackBranch(a, b) == IF list_less(split(a), split(b)) THEN "outdated" ELSE "current"

\* what lines 147-152 return when Version accepts both strings
VersionBranch(a, b) == IF VersionLess(a, b) THEN "outdated" ELSE "current"

\* C22: on every pair of dotted-numeric version strings the digit-run
\* fallback of compare_versions gives the classification that the Version
\* branch gives, so that the result does not depend on the branch taken.
C22_BranchesAgree ==
    (c_pc = "done" /\ DottedNumeric(c_installed) /\ DottedNumeric(c_latest)) =>
        /\ c_out = VersionBranch(c_installed, c_latest)
        /\ c_out = FallbackBranch(c_installed, c_latest)

---------------------------------------------------------------------------
(* Claims about what main prints, checked under SpecRun.                   *)

\* main was called with --only-outdated and without --quiet and has returned
FilteredAndLoud == pc = "done" /\ only_outdated /\ ~quiet

\* C23 as stated: with --only-outdated and without --quiet the message
\* "All tracked components are up to date." is printed only when every
\* component of the catalog is classified current: none is outdated,
\* unknown or not_installed.
C23_MessageOnlyWhenAllCurrent ==
    (FilteredAndLoud /\ printed = "up_to_date") =>
        \A k \in 1..Len(rows) : rows[k].status = "current"

\* C23 amended: with --only-outdated and without --quiet the message is
\* printed exactly when no component is classified outdated; components
\* that are unknown or not_installed do not keep it from being printed.
\* Without --only-outdated it is never printed.
C23_MessageWhenNoneOutdated ==
    /\ FilteredAndLoud =>
          (printed = "up_to_date" <=> \A k \in 1..Len(rows) : rows[k].status # "outdated")
    /\ (pc = "done" /\ ~only_outdated) => printed # "up_to_date"

\* the message was printed for a catalog of which nothing but the server
\* is installed
C23_Witness ==
    /\ FilteredAndLoud
    /\ printed = "up_to_date"
    /\ display_rows = <<>>
    /\ CONFIG = CatalogScenario
    /\ rows[2].status = "not_installed"
    /\ rows[3].status = "not_installed"

---------------------------------------------------------------------------
(* Claims about perf_diff, checked under SpecDiff.                         *)

\* the keys that occur in a snapshot file
KeysIn(file) == {key_of(file.rows[k]) : k \in 1..Len(file.rows)}

\* what a snapshot file counts for a key in a column: the number of its
\* row of that key (the last one, when there are several), 0 when it has
\* no such row
Counted(file, key, column) ==
    LET at == {k \in 1..Len(file.rows) : key_of(file.rows[k]) = key}
    IN  IF at = {}
        THEN Finite(0, 0)
        ELSE number_or_zero(file.rows[CHOOSE k \in at : \A j \in at : j <= k][column])

\* main went through both snapshots and returned
DiffDone == p_pc = "done" /\ p_exc = ""

\* C24: before the limit is applied there is exactly one delta row for
\* each (datname, queryid) key that occurs in the base or the compare
\* snapshot; a key missing from one snapshot counts as calls,
\* total_exec_time and rows all 0 there, and each delta is the compare
\* value minus the base value.
C24_OneDeltaPerKey ==
    DiffDone =>
        /\ \A key \in KeysIn(p_base) \cup KeysIn(p_compare) :
               Cardinality({k \in 1..Len(p_deltas) :
                   <<p_deltas[k].datname, p_deltas[k].queryid>> = key}) = 1
        /\ \A k \in 1..Len(p_deltas) :
               LET d == p_deltas[k]
                   key == <<d.datname, d.queryid>>
                   Delta(column) == FloatSub(Counted(p_compare, key, column),
                                             Counted(p_base, key, column))
               IN  /\ key \in KeysIn(p_base) \cup KeysIn(p_compare)
                   /\ FloatEqual(d.calls_delta, Delta("calls"))
                   /\ FloatEqual(d.exec_time_delta, Delta("total_exec_time"))
                   /\ FloatEqual(d.rows_delta, Delta("rows"))

\* a query of both snapshots, one of the base alone and one of the compare
\* snapshot alone each have their row
C24_Witness ==
    /\ DiffDone
    /\ Len(p_deltas) = 3
    /\ KeysIn(p_base) = {<<"a", "1">>, <<"a", "2">>}
    /\ KeysIn(p_compare) = {<<"a", "1">>, <<"b", "1">>}
    /\ \E k \in 1..3 :
           /\ p_deltas[k].queryid = "2"
           /\ FloatEqual(p_deltas[k].exec_time_delta, Finite(-1, 0))
    /\ \E k \in 1..3 :
           /\ p_deltas[k].datname = "b"
           /\ FloatEqual(p_deltas[k].rows_delta, Finite(1, 0))

\* the number a written field stands for, in hundredths
Hundredths(field) == IF field.negative THEN -field.hundredths ELSE field.hundredths

\* the number of delta rows
NumDeltas == Cardinality(KeysIn(p_base) \cup KeysIn(p_compare))

\* C25: the delta rows are written in non-increasing order of
\* exec_time_delta; exactly min(limit, N) of the N delta rows are written
\* when limit > 0 and all N when limit <= 0; the rows written are those
\* with the largest exec_time_delta.
C25_LargestFirstUpToLimit ==
    DiffDone =>
        /\ Len(p_out) = IF p_limit > 0 /\ p_limit < NumDeltas THEN p_limit ELSE NumDeltas
        /\ \A k \in 1..Len(p_out) :
               /\ p_out[k].datname = p_deltas[k].datname
               /\ p_out[k].queryid = p_deltas[k].queryid
        /\ \A j \in 1..Len(p_deltas) : \A k \in (j + 1)..Len(p_deltas) :
               ~FloatLess(p_deltas[j].exec_time_delta, p_deltas[k].exec_time_delta)
        /\ \A j \in 1..Len(p_out) : \A k \in (j + 1)..Len(p_out) :
               Hundredths(p_out[j].exec_time_delta) >= Hundredths(p_out[k].exec_time_delta)

\* two of three delta rows were written, the largest first and the
\* smallest left out
C25_Witness ==
    /\ DiffDone
    /\ p_limit = 2
    /\ Len(p_deltas) = 3
    /\ Len(p_out) = 2
    /\ Hundredths(p_out[1].exec_time_delta) = 150
    /\ Hundredths(p_out[2].exec_time_delta) = 0
    /\ FloatEqual(p_deltas[3].exec_time_delta, Finite(-1, 0))


---------------------------------------------------------------------------
(* Claims about generate_report, checked under SpecReport.                 *)

\* the rows of data in the table of a section: the body rows that are no
\* placeholder
RenderedRows(section) ==
    Cardinality({k \in 1..Len(section.content.body) : section.content.body[k].data})

\* the rows of data in a CSV file: the records behind the header line that
\* are no blank lines
DataRows(file) ==
    IF file = <<>>
    THEN 0
    ELSE Cardinality({k \in 2..Len(file) : file[k] # <<>>})

\* the CSV file a section of the report was made of
FileOf(section) ==
    g_dir[SECTION_FILES[CHOOSE k \in 1..Len(SECTION_FILES) :
                            SECTION_FILES[k].title = section.title].filename]

\* C30: in the heading 'showing X of T' of every CSV section of the report,
\* X is the number of rows of data rendered in the section's table and
\* 0 <= X <= T, T being the number of rows of data in the CSV file, for
\* every value of --rows.
C30_ShownCountsRenderedRows ==
    \A k \in 1..Len(g_sections) :
        g_sections[k].kind = "csv" =>
            /\ g_sections[k].shown = RenderedRows(g_sections[k])
            /\ 0 <= g_sections[k].shown
            /\ g_sections[k].shown <= g_sections[k].total
            /\ g_sections[k].total = DataRows(FileOf(g_sections[k]))

=============================================================================
